---- MODULE Spec2Model ----
(***************************************************************************)
(* LinkForge server.js: job controller (createJob / updateJob / STOP /      *)
(* download endpoints / periodic sweep) driving the text (runPdfJob) and    *)
(* image (runImagesJob) pipelines.  One action per handler or per           *)
(* continuation of an await: Node runs every synchronous stretch of code    *)
(* atomically, so a step of the model is the code between two awaits.       *)
(***************************************************************************)
EXTENDS Integers, Naturals, Sequences, FiniteSets, TLC

\* ---------------------------------------------------------------- bounds
MaxUrls == 2        \* pages a request lists / a site holds
MaxClients == 1     \* progress-stream connections
MaxImages == 1      \* distinct images the pages can yield (payloads, URL candidates)

\* ------------------------------------------------------ program constants
\* process.env.CONCURRENCY / IMG_DL_CONCURRENCY the server is started with
\* (0: the variable is unset)
EnvConcurrency == {1, 2}
EnvImgDlConcurrency == {2}
HARD_MAX_PAGES == 80
\* MIN_TEXT_CHARS = Math.max(0, Number(process.env.MIN_TEXT_CHARS || 200)), unset
MIN_TEXT_CHARS == 200
DefaultMaxPages == 25
FREE_AFTER_DOWNLOAD == TRUE

JobId == "job"
Clients == 1..MaxClients
Kinds == {"pdf", "images"}
Modes == {"none", "single", "list", "site", "other"}
\* Number(body.maxPages) as the caller sends it (0: absent, zero or not a number);
\* only mode "site" reads it
ReqMaxPages == {-3, 0, 100}

VARIABLES
  env,           \* process.env as read when the module is loaded
  jobs,          \* keys of the jobs Map
  job,           \* the job object (it outlives its registry entry)
  body,          \* request body, the fields still to be read: [kind, mode, maxPages]
  conn,          \* per client: "none" | "open" | "ended"
  browser,       \* renderer session: "none" | "open" | "closing" | "closed"
  signalAborted, \* abortController.signal.aborted
  disk,          \* [tmpDir, files, zip]: what exists on the file system
  pc,            \* the await the pipeline is suspended in
  pl,            \* pipeline locals
  wk,            \* per worker of the running pool: the await it is suspended in
  stopPc,        \* STOP handler: "idle" | "closing"
  respPending,   \* a response handler is suspended in resp.body() (one at a time)
  dlOpen,        \* download read streams not yet closed
  pagesUp,       \* image pages with a response listener exist
  sent,          \* snapshots written to the progress stream by the last step
  started,       \* blocking operations started by the last step
  stopped,       \* what the STOP handler did, when the last step was one of its two
  \* units checked on their own (AdmitSpec, PoolSpec, CrawlSpec, RegistrySpec)
  adm,           \* URL stage of a pipeline: the admission of the supplied URLs
  dnsCache,      \* dnsCache Map: hostname -> isPrivate
  dns,           \* what dns.lookup answers for a host name at this moment
  wp,            \* one call of runWithWorkerPool
  cs,            \* one call of crawlSite
  rg,            \* the candidate registry of one image job and its tmp dir
  ck,            \* one derivation of a canonical image key, and its re-derivation
  uc,            \* the size of the urlCandidates Map of one image job
  lk,            \* per admission check running concurrently: where it is
  ex             \* one call of extractSectionAuto

jobVars == <<env, jobs, job, body, conn, browser, signalAborted, disk, pc, pl, wk,
             stopPc, respPending, dlOpen, pagesUp, sent, started, stopped>>
admVars == <<adm, dnsCache, dns>>
moreVars == <<ck, uc, lk, ex>>
unitVars == <<admVars, wp, cs, rg, moreVars>>
vars == <<jobVars, unitVars>>

\* ---------------------------------------------------------------- messages
MsgStop == "Job annullato."
MsgCanceled == "Job annullato dall'utente"
MsgNotRunning == "Job non piu in running"
NoJob == [status |-> "none", percent |-> 0, message |-> "", total |-> 0, current |-> 0,
          sseClients |-> {}, pdfBuffer |-> FALSE, error |-> "null",
          abortController |-> FALSE, zipPath |-> FALSE, tmpDir |-> FALSE,
          cancelRequested |-> FALSE, browserRef |-> FALSE]
NoLocals == [urls |-> 0, maxPages |-> 1, results |-> 0, nextIndex |-> 0, completed |-> 0,
             sections |-> 0, urlCandidates |-> 0, bestByKey |-> 0, finalUrlList |-> 0]
\* worker ids of runWithWorkerPool: no pool has more workers than items
Workers == 1..(IF MaxUrls > MaxImages THEN MaxUrls ELSE MaxImages)

Min(a, b) == IF a < b THEN a ELSE b
Max(a, b) == IF a > b THEN a ELSE b

\* Math.max(1, Math.min(Number(process.env.CONCURRENCY || 4), 10))
CONCURRENCY == Max(1, Min(IF env.CONCURRENCY = 0 THEN 4 ELSE env.CONCURRENCY, 10))
\* Math.max(1, Math.min(Number(process.env.IMG_DL_CONCURRENCY || 8), 16))
IMG_DL_CONCURRENCY ==
  Max(1, Min(IF env.IMG_DL_CONCURRENCY = 0 THEN 8 ELSE env.IMG_DL_CONCURRENCY, 16))
\* Math.round(num / den * k) for num, k >= 0 and den > 0 (round half up)
RoundRatio(num, den, k) == (2 * num * k + den) \div (2 * den)

\* ------------------------------------------------------------ job helpers
createJob ==
  [NoJob EXCEPT !.status = "running", !.message = "Avvio..."]

\* the payload updateJob hands to sendSse
Payload(j) ==
  [status |-> j.status, percent |-> j.percent, message |-> j.message,
   current |-> j.current, total |-> j.total]

\* sendSse that writes to no response
SnapToNobody(j) ==
  [status |-> j.status, percent |-> j.percent, message |-> j.message,
   current |-> j.current, total |-> j.total, to |-> {}]

\* sendSse(job, payload): the payload and the responses it is written to
Snap(j) ==
  [status |-> j.status, percent |-> j.percent, message |-> j.message,
   current |-> j.current, total |-> j.total, to |-> j.sseClients]

\* Object.assign(job, patch)
updateJob(j, patch) ==
  [f \in DOMAIN j |-> IF f \in DOMAIN patch THEN patch[f] ELSE j[f]]

\* "" when the check passes, else the message of the Error it throws
ensureNotCanceled(j) ==
  IF j.cancelRequested THEN MsgCanceled
  ELSE IF j.status # "running" THEN MsgNotRunning
  ELSE ""

\* Number(body.maxPages) || 25
NumOr25(v) == IF v = 0 THEN DefaultMaxPages ELSE v
\* crawlSite: maxPages = Math.max(1, Math.min(Number(maxPages) || 25, HARD_MAX_PAGES))
EffMaxPages(v) == Max(1, Min(NumOr25(v), HARD_MAX_PAGES))
\* onProgress callback of the callers: total: Math.min(Number(body.maxPages) || 25, 80)
CrawlTotal(v) == Min(NumOr25(v), 80)

\* no job created yet
JobIdle ==
  /\ jobs = {}
  /\ job = NoJob
  /\ body = [kind |-> "pdf", mode |-> "none", maxPages |-> 0]
  /\ conn = [c \in Clients |-> "none"]
  /\ browser = "none"
  /\ signalAborted = FALSE
  /\ disk = [tmpDir |-> FALSE, files |-> 0, zip |-> FALSE]
  /\ pc = "idle"
  /\ pl = NoLocals
  /\ wk = [w \in Workers |-> "off"]
  /\ stopPc = "idle"
  /\ respPending = FALSE
  /\ dlOpen = 0
  /\ pagesUp = FALSE
  /\ sent = <<>>
  /\ started = {}
  /\ stopped = "no"

\* ------------------------------------------------- catch / finally blocks
\* CleanupTmpDisk that forgets the directory and only clears the field
CleanupTmpDiskNever(j, d) == d

\* rmSync(job.tmpDir) + job.tmpDir = null, when status !== "done" && job.tmpDir
CleanupTmpJob(j) ==
  IF j.status # "done" /\ j.tmpDir THEN [j EXCEPT !.tmpDir = FALSE] ELSE j
CleanupTmpDisk(j, d) ==
  IF j.status # "done" /\ j.tmpDir THEN [d EXCEPT !.tmpDir = FALSE, !.files = 0] ELSE d

\* browser.close() called on the session
CloseCalled(b) == IF b = "open" THEN "closing" ELSE b

\* Finally without clearing job.browserRef
FinallyKeepsHandle(k, j, d, b) ==
  IF k = "pdf"
  THEN /\ job' = j
       /\ pc' = "teardownCtx"
       /\ disk' = d
       /\ browser' = b
       /\ UNCHANGED signalAborted
  ELSE /\ signalAborted' = (signalAborted \/ j.abortController)
       /\ IF b # "none"
          THEN /\ job' = [j EXCEPT !.abortController = FALSE]
               /\ browser' = CloseCalled(b)
               /\ pc' = "teardownBrowser"
               /\ disk' = d
          ELSE /\ job' = CleanupTmpJob([j EXCEPT !.abortController = FALSE])
               /\ disk' = CleanupTmpDisk(j, d)
               /\ pc' = "finished"
               /\ browser' = b

\* the finally block, run synchronously up to its first await; j, d, b are the
\* job, the disk and the session as the step has left them so far
Finally(k, j, d, b) ==
  IF k = "pdf"
  THEN /\ job' = [j EXCEPT !.browserRef = FALSE]
       /\ pc' = "teardownCtx"
       /\ disk' = d
       /\ browser' = b
       /\ UNCHANGED signalAborted
  ELSE /\ signalAborted' = (signalAborted \/ j.abortController)
       /\ IF b # "none"
          THEN /\ job' = [j EXCEPT !.abortController = FALSE, !.browserRef = FALSE]
               /\ browser' = CloseCalled(b)
               /\ pc' = "teardownBrowser"
               /\ disk' = d
          ELSE /\ job' = CleanupTmpJob([j EXCEPT !.abortController = FALSE, !.browserRef = FALSE])
               /\ disk' = CleanupTmpDisk(j, d)
               /\ pc' = "finished"
               /\ browser' = b

\* catch (e): job.error = message; updateJob(status error, percent 100); finally
Fail(k, j, d, b, msg, pre) ==
  LET j1 == updateJob([j EXCEPT !.error = msg],
                      [status |-> "error", message |-> msg, percent |-> 100])
  IN /\ sent' = Append(pre, Snap(j1))
     /\ Finally(k, j1, d, b)

\* the pipeline moves on to its next await
Goto(j, d, b, pre, next) ==
  /\ job' = j
  /\ disk' = d
  /\ browser' = b
  /\ sent' = pre
  /\ pc' = next
  /\ UNCHANGED signalAborted

\* a renderer operation cannot succeed once the session is closed
RendererOk == IF browser = "closed" THEN {FALSE} ELSE BOOLEAN

\* ------------------------------------------------------------ start a job
\* app.post("/api/pdf/start") and app.post("/api/images/start"): createJob,
\* updateJob, then run*Job up to its first await (chromium.launch)
Start(k, m, mp) ==
  /\ pc = "idle"
  /\ (m = "site") \/ (mp = 0)
  /\ jobs' = {JobId}
  /\ body' = [kind |-> k, mode |-> m, maxPages |-> mp]
  /\ LET j1 == updateJob(createJob, [message |-> "Job creato", percent |-> 1])
         j2 == updateJob(j1, [message |-> "Avvio browser...", percent |-> 2])
     IN IF m = "none"
        THEN Fail(k, j1, disk, browser, "Manca mode/url", <<Snap(j1)>>)
        ELSE Goto(j2, disk, browser, <<Snap(j1), Snap(j2)>>, "launch")
  /\ started' = IF m = "none" THEN {} ELSE {"launch"}
  /\ stopped' = "no"
  /\ UNCHANGED <<conn, pl, wk, stopPc, respPending, dlOpen, pagesUp>>
  /\ UNCHANGED <<env, unitVars>>

\* --------------------------------------------------------- pipeline: URLs
\* "1) URLs" of run*Job up to the await of assertUrlAllowed; n: urls.length
UrlStage(j, d, b) ==
  \E valid \in BOOLEAN, n \in 0..MaxUrls :
     /\ (body.mode = "list") \/ (n = 1)
     /\ (body.mode = "list") => valid
     /\ IF body.mode = "other" THEN Fail(body.kind, j, d, b, "mode non supportata", <<>>)
        ELSE IF ~valid THEN Fail(body.kind, j, d, b, "URL non valido", <<>>)
        ELSE IF n = 0 THEN Fail(body.kind, j, d, b, "Lista vuota", <<>>)
        ELSE Goto(j, d, b, <<>>, "assert")
     /\ pl' = [pl EXCEPT !.urls = n]
     /\ started' = IF body.mode # "other" /\ valid /\ n > 0 THEN {"dns"} ELSE {}

\* chromium.launch() returned or failed
LaunchDone ==
  /\ pc = "launch"
  /\ \E ok \in BOOLEAN :
       IF ~ok
       THEN /\ Fail(body.kind, job, disk, browser, "Errore del browser", <<>>)
            /\ started' = {}
            /\ UNCHANGED pl
       ELSE IF body.kind = "pdf"
       THEN \* job.browserRef = browser; context = await browser.newContext(...)
            /\ Goto([job EXCEPT !.browserRef = TRUE], disk, "open", <<>>, "context")
            /\ started' = {}
            /\ UNCHANGED pl
       ELSE \* job.browserRef = browser; job.tmpDir = ...; fs.mkdirSync(job.tmpDir)
            UrlStage([job EXCEPT !.browserRef = TRUE, !.tmpDir = TRUE],
                     [disk EXCEPT !.tmpDir = TRUE], "open")
  /\ stopped' = "no"
  /\ UNCHANGED <<jobs, body, conn, wk, stopPc, respPending, dlOpen, pagesUp>>
  /\ UNCHANGED <<env, unitVars>>

\* browser.newContext() / context.addInitScript() returned or failed (text job)
ContextDone ==
  /\ pc = "context"
  /\ \E ok \in RendererOk :
       IF ~ok
       THEN /\ Fail(body.kind, job, disk, browser, "Errore del browser", <<>>)
            /\ started' = {}
            /\ UNCHANGED pl
       ELSE UrlStage(job, disk, browser)
  /\ stopped' = "no"
  /\ UNCHANGED <<jobs, body, conn, wk, stopPc, respPending, dlOpen, pagesUp>>
  /\ UNCHANGED <<env, unitVars>>

\* line 1021 / 1313 onwards: ensureNotCanceled, then the pages of the workers
AfterUrls(j, pre) ==
  LET e == ensureNotCanceled(j)
  IN IF e # "" THEN Fail(body.kind, j, disk, browser, e, pre)
     ELSE IF body.kind = "pdf" THEN Goto(j, disk, browser, pre, "pages")
     ELSE \* job.zipPath = zipPath; fs.createWriteStream(zipPath); job.abortController = new
          /\ job' = [j EXCEPT !.zipPath = TRUE, !.abortController = TRUE]
          /\ disk' = [disk EXCEPT !.zip = TRUE]
          /\ signalAborted' = FALSE
          /\ sent' = pre
          /\ pc' = "pages"
          /\ UNCHANGED browser

\* the crawl's onProgress callback: updateJob with the i-th accepted page
CrawlPatch(i) ==
  [message |-> "Trovata pagina",
   percent |-> 6 + Min(18, RoundRatio(i, pl.maxPages, 18)),
   current |-> i,
   total |-> CrawlTotal(body.maxPages)]

\* crawlSite's while loop from one await to the next: k pages accepted at the
\* depth limit (no navigation), then either a page accepted and navigated to, or
\* the end of the loop and await page.close()
CrawlLoop ==
  \E k \in 0..MaxUrls, nav \in BOOLEAN :
     LET r == pl.results + k + (IF nav THEN 1 ELSE 0)
         snaps == [i \in 1..(r - pl.results) |-> Snap(updateJob(job, CrawlPatch(pl.results + i)))]
         j1 == IF r = pl.results THEN job ELSE updateJob(job, CrawlPatch(r))
     IN /\ r <= Min(pl.maxPages, MaxUrls)
        /\ Goto(j1, disk, browser, snaps, IF nav THEN "crawlNav" ELSE "crawlClose")
        /\ pl' = [pl EXCEPT !.results = r]
        /\ started' = IF nav THEN {"nav"} ELSE {}

\* assertUrlAllowed returned or threw for the supplied URL(s)
AssertDone ==
  /\ pc = "assert"
  /\ \E allowed \in BOOLEAN :
       IF ~allowed
       THEN /\ Fail(body.kind, job, disk, browser, "Host bloccato", <<>>)
            /\ started' = {}
            /\ UNCHANGED pl
       ELSE IF body.mode = "site"
       THEN \* updateJob(percent 6); crawlSite: await browser.newPage()
            LET j1 == updateJob(job, [message |-> "Scansione link del sito...", percent |-> 6])
            IN /\ Goto(j1, disk, browser, <<Snap(j1)>>, "crawlNewPage")
               /\ pl' = [pl EXCEPT !.maxPages = EffMaxPages(body.maxPages), !.results = 0]
               /\ started' = {}
       ELSE LET j1 == updateJob(job, [message |-> "pagine in coda", percent |-> 8,
                                      total |-> pl.urls, current |-> 0])
            IN /\ AfterUrls(j1, <<Snap(j1)>>)
               /\ started' = {}
               /\ UNCHANGED pl
  /\ stopped' = "no"
  /\ UNCHANGED <<jobs, body, conn, wk, stopPc, respPending, dlOpen, pagesUp>>
  /\ UNCHANGED <<env, unitVars>>

\* crawlSite has returned or thrown: its maxPages is out of scope and the
\* request's maxPages is not read again
CrawlReturn(p) ==
  /\ pl' = [p EXCEPT !.maxPages = NoLocals.maxPages]
  /\ body' = [body EXCEPT !.maxPages = 0]

\* crawlSite: browser.newPage() / configureBlocking returned or failed
CrawlNewPageDone ==
  /\ pc = "crawlNewPage"
  /\ \E ok \in RendererOk :
       IF ~ok
       THEN /\ Fail(body.kind, job, disk, browser, "Errore del browser", <<>>)
            /\ started' = {}
            /\ CrawlReturn(pl)
       ELSE CrawlLoop /\ UNCHANGED body
  /\ stopped' = "no"
  /\ UNCHANGED <<jobs, conn, wk, stopPc, respPending, dlOpen, pagesUp>>
  /\ UNCHANGED <<env, unitVars>>

\* crawlSite: page.goto / link extraction returned or threw (errors swallowed)
CrawlNavDone ==
  /\ pc = "crawlNav"
  /\ CrawlLoop
  /\ stopped' = "no"
  /\ UNCHANGED <<jobs, body, conn, wk, stopPc, respPending, dlOpen, pagesUp>>
  /\ UNCHANGED <<env, unitVars>>

\* crawlSite: page.close() returned or failed; back in run*Job with the URL list
CrawlCloseDone ==
  /\ pc = "crawlClose"
  /\ \E ok \in RendererOk :
       IF ~ok
       THEN /\ Fail(body.kind, job, disk, browser, "Errore del browser", <<>>)
            /\ CrawlReturn(pl)
       ELSE IF pl.results = 0
       THEN /\ Fail(body.kind, job, disk, browser, "Nessuna pagina trovata", <<>>)
            /\ CrawlReturn(pl)
       ELSE LET j1 == updateJob(job, [message |-> "Trovate pagine", percent |-> 24,
                                      total |-> pl.results, current |-> 0])
            IN /\ AfterUrls(j1, <<Snap(j1)>>)
               /\ CrawlReturn([pl EXCEPT !.urls = pl.results])
  /\ started' = {}
  /\ stopped' = "no"
  /\ UNCHANGED <<jobs, conn, wk, stopPc, respPending, dlOpen, pagesUp>>
  /\ UNCHANGED <<env, unitVars>>
\* ----------------------------------------------------------- worker pools
\* the three uses of runWithWorkerPool: "text" (runPdfJob), "scan" and "dl"
\* (runImagesJob); pl.completed is completed / scannedPages / processed
Items(pool, p) == IF pool = "dl" THEN p.finalUrlList ELSE p.urls
PoolPc(pool) == IF pool = "dl" THEN "dlPool" ELSE "pool"
FirstPos(pool) ==
  IF pool = "text" THEN "fastGoto" ELSE IF pool = "scan" THEN "viewport" ELSE "dlDns"
FirstOp(pool) ==
  IF pool = "text" THEN {"nav"} ELSE IF pool = "scan" THEN {} ELSE {"dns"}

\* ItemPatch with the progress taken from the items still to do
ItemPatchRemaining(pool, p) ==
  IF pool = "text"
  THEN [message |-> "Leggo pagina",
        percent |-> 24 + RoundRatio(p.urls - p.completed, Max(1, p.urls), 56),
        current |-> p.completed, total |-> p.urls]
  ELSE IF pool = "scan"
  THEN [message |-> "Scansiono pagina",
        percent |-> 24 + RoundRatio(p.urls - p.completed, Max(1, p.urls), 40),
        current |-> p.completed, total |-> p.urls]
  ELSE [message |-> "Scarico best",
        percent |-> 66 + RoundRatio(p.finalUrlList - p.completed, Max(1, p.finalUrlList), 26),
        current |-> p.completed, total |-> p.finalUrlList]

\* the updateJob at the head of the per-item function
ItemPatch(pool, p) ==
  IF pool = "text"
  THEN [message |-> "Leggo pagina",
        percent |-> 24 + RoundRatio(p.completed, Max(1, p.urls), 56),
        current |-> p.completed, total |-> p.urls]
  ELSE IF pool = "scan"
  THEN [message |-> "Scansiono pagina",
        percent |-> 24 + RoundRatio(p.completed, Max(1, p.urls), 40),
        current |-> p.completed, total |-> p.urls]
  ELSE [message |-> "Scarico best",
        percent |-> 66 + RoundRatio(p.completed, Max(1, p.finalUrlList), 26),
        current |-> p.completed, total |-> p.finalUrlList]

\* the pipeline stays suspended in the pool's Promise.all
Stay(j, d, pre) ==
  /\ job' = j
  /\ disk' = d
  /\ sent' = pre
  /\ UNCHANGED <<pc, signalAborted, browser>>

\* "6) Build ZIP": updateJob every 25 files
ZipPatch(n, saved) ==
  [message |-> "Creo ZIP...", percent |-> 94 + RoundRatio(n, Max(1, saved), 5),
   current |-> n, total |-> saved]

\* runImagesJob after the download pool: lines 1645-1688, up to await finalize
AfterDl(j, d, p, pre) ==
  LET e == ensureNotCanceled(j)
      saved == p.bestByKey
      j1 == updateJob(j, [message |-> "Creo ZIP...", percent |-> 94,
                          current |-> 0, total |-> saved])
      q == saved \div 25
      zips == [i \in 1..q |-> Snap(updateJob(j1, ZipPatch(25 * i, saved)))]
      j2 == IF q = 0 THEN j1 ELSE updateJob(j1, ZipPatch(25 * q, saved))
  IN /\ pl' = p
     /\ started' = {}
     /\ IF e # "" THEN Fail(body.kind, j, d, browser, e, pre)
        ELSE IF saved = 0 THEN Fail(body.kind, j, d, browser, "Nessuna immagine salvata", pre)
        ELSE Goto(j2, d, browser, Append(pre, Snap(j1)) \o zips, "finalize")

\* Promise.all(workers) resolved: the code after the pool, up to its next await
Join(pool, j, d, p, pre) ==
  IF pool = "dl" THEN AfterDl(j, d, p, pre)
  ELSE /\ Goto(j, d, browser, pre, "closePages")
       /\ pl' = p
       /\ started' = {}

\* worker(): i = nextIndex++; leave the loop, or call the per-item function,
\* which runs up to its first await
NextItem(pool, w, j, d, p, pre) ==
  LET i == p.nextIndex
      p1 == [p EXCEPT !.nextIndex = i + 1]
      e == ensureNotCanceled(j)
      j1 == updateJob(j, ItemPatch(pool, p1))
      pending == pc = PoolPc(pool)
  IN IF i >= Items(pool, p)
     THEN /\ wk' = [wk EXCEPT ![w] = "exited"]
          /\ IF pending /\ \A v \in Workers \ {w} : wk[v] \in {"off", "exited"}
             THEN Join(pool, j, d, p1, pre)
             ELSE Stay(j, d, pre) /\ pl' = p1 /\ started' = {}
     ELSE IF e # ""
     THEN \* the per-item function throws: worker() rejects, and so does Promise.all
          /\ wk' = [wk EXCEPT ![w] = "threw"]
          /\ pl' = p1
          /\ started' = {}
          /\ IF pending THEN Fail(body.kind, j, d, browser, e, pre) ELSE Stay(j, d, pre)
     ELSE /\ wk' = [wk EXCEPT ![w] = FirstPos(pool)]
          /\ pl' = p1
          /\ started' = FirstOp(pool)
          /\ Stay(j1, d, Append(pre, Snap(j1)))

\* a worker stays inside its item, suspended in the next await
Move(w, pos, ops) ==
  /\ wk' = [wk EXCEPT ![w] = pos]
  /\ started' = ops
  /\ Stay(job, disk, <<>>)
  /\ UNCHANGED pl

\* runWithWorkerPool(items, W, fn): the W workers start one after the other
PoolStart(pool, j, d, p, W, pre) ==
  LET e == ensureNotCanceled(j)
      p0 == [p EXCEPT !.nextIndex = 0, !.completed = 0]
      j1 == updateJob(j, ItemPatch(pool, p0))
  IN IF Items(pool, p) = 0
     THEN \* no item: every worker leaves at once and Promise.all resolves
          /\ wk' = [w \in Workers |-> IF w <= W THEN "exited" ELSE "off"]
          /\ Join(pool, j, d, [p0 EXCEPT !.nextIndex = W], pre)
     ELSE IF e # ""
     THEN /\ wk' = [w \in Workers |-> IF w <= W THEN "threw" ELSE "off"]
          /\ pl' = [p0 EXCEPT !.nextIndex = W]
          /\ started' = {}
          /\ Fail(body.kind, j, d, browser, e, pre)
     ELSE /\ wk' = [w \in Workers |-> IF w <= W THEN FirstPos(pool) ELSE "off"]
          /\ pl' = [p0 EXCEPT !.nextIndex = W]
          /\ started' = FirstOp(pool)
          /\ Goto(j1, d, browser, pre \o [i \in 1..W |-> Snap(j1)], PoolPc(pool))

\* the pages of the workers were created (or their creation failed)
PagesDone ==
  /\ pc = "pages"
  /\ \E ok \in RendererOk :
       IF ~ok
       THEN /\ Fail(body.kind, job, disk, browser, "Errore del browser", <<>>)
            /\ started' = {}
            /\ UNCHANGED <<pl, wk, pagesUp>>
       ELSE /\ PoolStart(IF body.kind = "pdf" THEN "text" ELSE "scan", job, disk,
                         [pl EXCEPT !.sections = 0], Min(CONCURRENCY, pl.urls), <<>>)
            /\ pagesUp' = (body.kind = "images")
  /\ stopped' = "no"
  /\ UNCHANGED <<jobs, body, conn, stopPc, respPending, dlOpen>>
  /\ UNCHANGED <<env, unitVars>>
\* --------------------------------------------------- text job: extraction
FinishTextCountsSections(w, got) ==
  NextItem("text", w, job, disk,
           [pl EXCEPT !.completed = @ + got, !.sections = @ + got], <<>>)
\* the per-item function of runPdfJob returned: finally { completed++ }
FinishText(w, got) ==
  NextItem("text", w, job, disk,
           [pl EXCEPT !.completed = @ + 1, !.sections = @ + got], <<>>)

\* extractSectionAuto resumes after one of its awaits (a throw yields null)
TextWorker(w) ==
  /\ wk[w] \in {"fastGoto", "fastDom", "safeGoto", "safeDom"}
  /\ \E ok \in RendererOk, enough \in BOOLEAN :
       CASE wk[w] = "fastGoto" ->
              /\ enough
              /\ IF ok /\ ensureNotCanceled(job) = ""
                 THEN Move(w, "fastDom", {}) ELSE FinishText(w, 0)
         [] wk[w] = "fastDom" ->
              IF ~ok THEN enough /\ FinishText(w, 0)
              ELSE IF enough THEN FinishText(w, 1)
              ELSE Move(w, "safeGoto", {"nav"})
         [] wk[w] = "safeGoto" ->
              /\ enough
              /\ IF ok /\ ensureNotCanceled(job) = ""
                 THEN Move(w, "safeDom", {}) ELSE FinishText(w, 0)
         [] wk[w] = "safeDom" ->
              /\ enough
              /\ FinishText(w, IF ok THEN 1 ELSE 0)
  /\ stopped' = "no"
  /\ UNCHANGED <<jobs, body, conn, stopPc, respPending, dlOpen, pagesUp>>
  /\ UNCHANGED <<env, unitVars>>

\* the step without the test for an empty list of sections
ClosePagesTextNoCheck ==
  /\ pc = "closePages"
  /\ body.kind = "pdf"
  /\ \E ok \in RendererOk :
       LET e == ensureNotCanceled(job)
           j1 == updateJob(job, [message |-> "Creo PDF...", percent |-> 86,
                                 current |-> pl.sections, total |-> pl.urls])
       IN IF ~ok THEN Fail(body.kind, job, disk, browser, "Errore del browser", <<>>)
          ELSE IF e # "" THEN Fail(body.kind, job, disk, browser, e, <<>>)
          ELSE Goto(j1, disk, browser, <<Snap(j1)>>, "pdfRender")
  /\ started' = {}
  /\ stopped' = "no"
  /\ UNCHANGED <<jobs, body, conn, pl, wk, stopPc, respPending, dlOpen, pagesUp>>
  /\ UNCHANGED <<env, unitVars>>

\* await Promise.all(pages.map(p => p.close())) returned; lines 1069-1092
ClosePagesText ==
  /\ pc = "closePages"
  /\ body.kind = "pdf"
  /\ \E ok \in RendererOk :
       LET e == ensureNotCanceled(job)
           j1 == updateJob(job, [message |-> "Creo PDF...", percent |-> 86,
                                 current |-> pl.sections, total |-> pl.urls])
       IN IF ~ok THEN Fail(body.kind, job, disk, browser, "Errore del browser", <<>>)
          ELSE IF pl.sections = 0
          THEN Fail(body.kind, job, disk, browser, "Non sono riuscito a estrarre testo", <<>>)
          ELSE IF e # "" THEN Fail(body.kind, job, disk, browser, e, <<>>)
          ELSE Goto(j1, disk, browser, <<Snap(j1)>>, "pdfRender")
  /\ started' = {}
  /\ stopped' = "no"
  /\ UNCHANGED <<jobs, body, conn, pl, wk, stopPc, respPending, dlOpen, pagesUp>>
  /\ UNCHANGED <<env, unitVars>>

\* newPage / setContent / pdf / close returned; lines 1094-1097 and finally
PdfRenderDone ==
  /\ pc = "pdfRender"
  /\ \E ok \in RendererOk :
       LET j1 == updateJob([job EXCEPT !.pdfBuffer = TRUE],
                           [status |-> "done", message |-> "Pronto", percent |-> 100,
                            current |-> pl.sections, total |-> pl.urls])
       IN IF ~ok THEN Fail(body.kind, job, disk, browser, "Errore del browser", <<>>)
          ELSE /\ sent' = <<Snap(j1)>>
               /\ Finally(body.kind, j1, disk, browser)
  /\ started' = {}
  /\ stopped' = "no"
  /\ UNCHANGED <<jobs, body, conn, pl, wk, stopPc, respPending, dlOpen, pagesUp>>
  /\ UNCHANGED <<env, unitVars>>

\* ------------------------------------------------------ image job: registry
\* considerUrlCandidate for cand URLs with keys not yet in urlCandidates
considerUrlCandidate(j, p, cand) ==
  IF j.cancelRequested THEN p ELSE [p EXCEPT !.urlCandidates = @ + cand]

\* considerBufferCandidate for a non-empty buffer; c = "new": its key is not in
\* bestByKey, c = "old": it is (the payload is overwritten in place or discarded)
considerBufferCandidate(j, d, p, c) ==
  IF j.cancelRequested \/ c = "old" THEN [d |-> d, p |-> p]
  ELSE IF ~j.tmpDir \/ ~d.tmpDir THEN [d |-> d, p |-> p]   \* path.join / writeFileSync throws
  ELSE [d |-> [d EXCEPT !.files = @ + 1], p |-> [p EXCEPT !.bestByKey = @ + 1]]

\* the candidates a step may submit, within the bounds
BufferChoices(p) ==
  (IF p.bestByKey < MaxImages THEN {"new"} ELSE {}) \cup (IF p.bestByKey > 0 THEN {"old"} ELSE {})
CandChoices(p) == {c \in 0..1 : p.urlCandidates + c <= MaxImages}
FetchOk == IF signalAborted THEN {FALSE} ELSE BOOLEAN

\* the per-page function of the scan pool returned: finally { scannedPages++ }
FinishScan(w, d, p) ==
  NextItem("scan", w, job, d, [p EXCEPT !.completed = @ + 1], <<>>)

\* the CSS / script loops: the next downloadTextAsset, or the end of the page
AssetOrFinish(w, d, p) ==
  \E more \in BOOLEAN :
     IF more /\ ensureNotCanceled(job) = ""
     THEN /\ wk' = [wk EXCEPT ![w] = "assetDns"]
          /\ started' = {"dns"}
          /\ Stay(job, d, <<>>)
          /\ pl' = p
     ELSE FinishScan(w, d, p)

\* the per-page function of the scan pool resumes after one of its awaits
ScanWorker(w) ==
  /\ wk[w] \in {"viewport", "scanNav", "assetDns", "assetGet"}
  /\ CASE wk[w] = "viewport" -> Move(w, "scanNav", {"nav"})
       [] wk[w] = "scanNav" ->
            \E ok \in RendererOk :
               IF ~ok THEN FinishScan(w, disk, pl)
               ELSE \E data \in BOOLEAN, c \in BufferChoices(pl) :
                      LET r == IF data THEN considerBufferCandidate(job, disk, pl, c)
                               ELSE [d |-> disk, p |-> pl]
                      IN \E cand \in CandChoices(r.p) :
                           AssetOrFinish(w, r.d, considerUrlCandidate(job, r.p, cand))
       [] wk[w] = "assetDns" ->
            \E allowed \in BOOLEAN :
               IF allowed THEN Move(w, "assetGet", {"fetch"})
               ELSE AssetOrFinish(w, disk, pl)
       [] wk[w] = "assetGet" ->
            \E ok \in FetchOk :
               IF ~ok THEN FinishScan(w, disk, pl)
               ELSE \E cand \in CandChoices(pl) :
                      AssetOrFinish(w, disk, considerUrlCandidate(job, pl, cand))
  /\ stopped' = "no"
  /\ UNCHANGED <<jobs, body, conn, stopPc, respPending, dlOpen, pagesUp>>
  /\ UNCHANGED <<env, unitVars>>

\* unroute / close of the scan pages returned; lines 1599-1643 up to the pool
ClosePagesImages ==
  /\ pc = "closePages"
  /\ body.kind = "images"
  /\ \E ok \in RendererOk :
       LET e == ensureNotCanceled(job)
           len == pl.urlCandidates
           p1 == [pl EXCEPT !.finalUrlList = len]
           j1 == updateJob(job, [message |-> "Download immagini", percent |-> 66,
                                 current |-> 0, total |-> len])
       IN IF ~ok
          THEN /\ Fail(body.kind, job, disk, browser, "Errore del browser", <<>>)
               /\ started' = {}
               /\ UNCHANGED <<pl, wk, pagesUp>>
          ELSE IF e # ""
          THEN /\ Fail(body.kind, job, disk, browser, e, <<>>)
               /\ started' = {}
               /\ pagesUp' = FALSE
               /\ UNCHANGED <<pl, wk>>
          ELSE /\ PoolStart("dl", j1, disk, p1,
                            Min(IMG_DL_CONCURRENCY, Max(1, len)), <<Snap(j1)>>)
               /\ pagesUp' = FALSE
  /\ stopped' = "no"
  /\ UNCHANGED <<jobs, body, conn, stopPc, respPending, dlOpen>>
  /\ UNCHANGED <<env, unitVars>>

\* the per-URL function of the download pool returned: finally { processed++ }
FinishDl(w, d, p) ==
  NextItem("dl", w, job, d, [p EXCEPT !.completed = @ + 1], <<>>)

\* downloadAndConsider resumes after one of its awaits
DlWorker(w) ==
  /\ wk[w] \in {"dlDns", "dlHead", "dlGet"}
  /\ CASE wk[w] = "dlDns" ->
            \E allowed \in BOOLEAN :
               IF allowed THEN Move(w, "dlHead", {"fetch"}) ELSE FinishDl(w, disk, pl)
       [] wk[w] = "dlHead" ->
            \E skip \in BOOLEAN :
               IF skip THEN FinishDl(w, disk, pl) ELSE Move(w, "dlGet", {"fetch"})
       [] wk[w] = "dlGet" ->
            \E ok \in FetchOk :
               IF ~ok THEN FinishDl(w, disk, pl)
               ELSE \E c \in BufferChoices(pl) :
                      LET r == considerBufferCandidate(job, disk, pl, c)
                      IN FinishDl(w, r.d, r.p)
  /\ stopped' = "no"
  /\ UNCHANGED <<jobs, body, conn, stopPc, respPending, dlOpen, pagesUp>>
  /\ UNCHANGED <<env, unitVars>>

\* archive.finalize(): the output stream closed, or failed; lines 1690-1696
FinalizeDone ==
  /\ pc = "finalize"
  /\ \E ok \in BOOLEAN :
       LET j1 == updateJob(job, [status |-> "done", message |-> "ZIP pronto", percent |-> 100,
                                 current |-> pl.bestByKey, total |-> pl.bestByKey])
       IN IF ~ok THEN Fail(body.kind, job, disk, browser, "Errore archivio", <<>>)
          ELSE /\ sent' = <<Snap(j1)>>
               /\ Finally(body.kind, j1, disk, browser)
  /\ started' = {}
  /\ stopped' = "no"
  /\ UNCHANGED <<jobs, body, conn, pl, wk, stopPc, respPending, dlOpen, pagesUp>>
  /\ UNCHANGED <<env, unitVars>>

\* p.on("response") up to await resp.body()
ResponseBegin ==
  /\ body.kind = "images"
  /\ pagesUp
  /\ browser \in {"open", "closing"}
  /\ ~respPending
  /\ ~job.cancelRequested
  /\ job.status = "running"
  /\ respPending' = TRUE
  /\ sent' = <<>>
  /\ started' = {}
  /\ stopped' = "no"
  /\ UNCHANGED <<jobs, job, body, conn, browser, signalAborted, disk, pc, pl, wk,
                 stopPc, dlOpen, pagesUp>>
  /\ UNCHANGED <<env, unitVars>>

\* p.on("response") after await resp.body(): considerBufferCandidate
ResponseEnd ==
  /\ respPending
  /\ respPending' = FALSE
  /\ \E ok \in BOOLEAN, c \in BufferChoices(pl) :
       LET r == IF ok THEN considerBufferCandidate(job, disk, pl, c)
                ELSE [d |-> disk, p |-> pl]
       IN /\ disk' = r.d
          /\ pl' = r.p
  /\ sent' = <<>>
  /\ started' = {}
  /\ stopped' = "no"
  /\ UNCHANGED <<jobs, job, body, conn, browser, signalAborted, pc, wk, stopPc, dlOpen, pagesUp>>
  /\ UNCHANGED <<env, unitVars>>

\* ---------------------------------------------------------------- teardown
\* runPdfJob finally: await context?.close() returned
TeardownCtxDone ==
  /\ pc = "teardownCtx"
  /\ browser' = CloseCalled(browser)
  /\ pc' = IF browser # "none" THEN "teardownBrowser" ELSE "finished"
  /\ sent' = <<>>
  /\ started' = {}
  /\ stopped' = "no"
  /\ UNCHANGED <<jobs, job, body, conn, signalAborted, disk, pl, wk, stopPc,
                 respPending, dlOpen, pagesUp>>
  /\ UNCHANGED <<env, unitVars>>

\* finally: await browser.close() returned; runImagesJob then cleans its tmp dir
TeardownBrowserDone ==
  /\ pc = "teardownBrowser"
  /\ browser' = "closed"
  /\ pc' = "finished"
  /\ job' = IF body.kind = "images" THEN CleanupTmpJob(job) ELSE job
  /\ disk' = IF body.kind = "images" THEN CleanupTmpDisk(job, disk) ELSE disk
  /\ sent' = <<>>
  /\ started' = {}
  /\ stopped' = "no"
  /\ UNCHANGED <<jobs, body, conn, signalAborted, pl, wk, stopPc, respPending, dlOpen, pagesUp>>
  /\ UNCHANGED <<env, unitVars>>
\* --------------------------------------------------------------------- API
\* app.post("/api/stop/:jobId") up to await job.browserRef?.close()
StopRunning ==
  LET j1 == updateJob([job EXCEPT !.cancelRequested = TRUE],
                      [status |-> "error", message |-> MsgStop, percent |-> job.percent])
  IN /\ job' = j1
     /\ signalAborted' = (signalAborted \/ job.abortController)
     /\ sent' = <<Snap(j1)>>
     /\ browser' = IF job.browserRef THEN CloseCalled(browser) ELSE browser
     /\ stopPc' = IF job.browserRef THEN "closing" ELSE "tick"
     /\ stopped' = "accepted"

\* the same handler for a job that is unknown or not running: it only answers
StopIgnored ==
  /\ stopped' = IF JobId \in jobs THEN "ignored" ELSE "notfound"
  /\ sent' = <<>>
  /\ UNCHANGED <<job, signalAborted, browser, stopPc>>

\* StopRequest without the early return for a job that is not running
StopRequestUnguarded ==
  /\ IF JobId \in jobs THEN StopRunning ELSE StopIgnored
  /\ started' = {}
  /\ UNCHANGED <<jobs, body, conn, disk, pc, pl, wk, respPending, dlOpen, pagesUp>>
  /\ UNCHANGED <<env, unitVars>>

StopRequest ==
  /\ IF JobId \in jobs /\ job.status = "running" THEN StopRunning ELSE StopIgnored
  /\ started' = {}
  /\ UNCHANGED <<jobs, body, conn, disk, pc, pl, wk, respPending, dlOpen, pagesUp>>
  /\ UNCHANGED <<env, unitVars>>

\* StopFinish that answers without ending the subscribers
StopFinishKeepsClients ==
  /\ stopPc \in {"closing", "tick"}
  /\ stopPc' = "idle"
  /\ browser' = IF stopPc = "closing" THEN "closed" ELSE browser
  /\ stopped' = "answered"
  /\ sent' = <<>>
  /\ started' = {}
  /\ UNCHANGED <<jobs, job, conn, body, signalAborted, disk, pc, pl, wk, respPending,
                 dlOpen, pagesUp>>
  /\ UNCHANGED <<env, unitVars>>

\* the STOP handler after its await: end and clear the subscribers, answer
StopFinish ==
  /\ stopPc \in {"closing", "tick"}
  /\ stopPc' = "idle"
  /\ browser' = IF stopPc = "closing" THEN "closed" ELSE browser
  /\ conn' = [c \in Clients |-> IF c \in job.sseClients THEN "ended" ELSE conn[c]]
  /\ job' = [job EXCEPT !.sseClients = {}]
  /\ stopped' = "answered"
  /\ sent' = <<>>
  /\ started' = {}
  /\ UNCHANGED <<jobs, body, signalAborted, disk, pc, pl, wk, respPending, dlOpen, pagesUp>>
  /\ UNCHANGED <<env, unitVars>>

\* app.get("/api/events/:jobId"): replay the snapshot, subscribe
Connect(c) ==
  /\ conn[c] = "none"
  /\ IF JobId \in jobs
     THEN /\ conn' = [conn EXCEPT ![c] = "open"]
          /\ job' = [job EXCEPT !.sseClients = @ \cup {c}]
          /\ sent' = <<[Snap(job) EXCEPT !.to = {c}]>>   \* res.write of the snapshot
     ELSE /\ UNCHANGED <<conn, job>>
          /\ sent' = <<>>
  /\ stopped' = "no"
  /\ started' = {}
  /\ UNCHANGED <<jobs, body, browser, signalAborted, disk, pc, pl, wk, stopPc,
                 respPending, dlOpen, pagesUp>>
  /\ UNCHANGED <<env, unitVars>>

\* req.on("close"): the connection went away (closed by the client or ended)
Disconnect(c) ==
  /\ conn[c] \in {"open", "ended"}
  /\ conn' = [conn EXCEPT ![c] = "none"]
  /\ job' = [job EXCEPT !.sseClients = @ \ {c}]
  /\ sent' = <<>>
  /\ started' = {}
  /\ stopped' = "no"
  /\ UNCHANGED <<jobs, body, browser, signalAborted, disk, pc, pl, wk, stopPc,
                 respPending, dlOpen, pagesUp>>
  /\ UNCHANGED <<env, unitVars>>

\* FetchResult that looks at the status only, not at the artifact reference
FetchResultStatusOnly(ep) ==
  IF JobId \notin jobs THEN [code |-> "notfound", msg |-> "Job non trovato"]
  ELSE IF job.status = "error"
  THEN [code |-> "error", msg |-> IF job.error = "null" THEN "Errore" ELSE job.error]
  ELSE IF job.status # "done" THEN [code |-> "notready", msg |-> "Non pronto ancora"]
  ELSE [code |-> "artifact", msg |-> ""]

\* the answer of app.get("/api/pdf/download/:jobId") (ep = "pdf") and of
\* app.get("/api/images/download/:jobId") (ep = "images")
FetchResult(ep) ==
  IF JobId \notin jobs THEN [code |-> "notfound", msg |-> "Job non trovato"]
  ELSE IF job.status = "error"
  THEN [code |-> "error",
        msg |-> IF job.error = "null" THEN "Errore" ELSE job.error]
  ELSE IF job.status # "done" \/ ~(IF ep = "pdf" THEN job.pdfBuffer ELSE job.zipPath)
  THEN [code |-> "notready", msg |-> "Non pronto ancora"]
  ELSE IF ep = "images" /\ ~disk.zip
  THEN [code |-> "streamerror", msg |-> ""]
  ELSE [code |-> "artifact", msg |-> ""]

Fetch(ep) ==
  /\ stopped' = "no"
  /\ IF FetchResult(ep).code \in {"artifact", "streamerror"}
     THEN IF ep = "pdf"
          THEN /\ job' = IF FREE_AFTER_DOWNLOAD THEN [job EXCEPT !.pdfBuffer = FALSE] ELSE job
               /\ UNCHANGED dlOpen
          ELSE /\ dlOpen = 0
               /\ dlOpen' = 1
               /\ UNCHANGED job
     ELSE UNCHANGED <<job, dlOpen>>
  /\ sent' = <<>>
  /\ started' = {}
  /\ UNCHANGED <<jobs, body, conn, browser, signalAborted, disk, pc, pl, wk, stopPc,
                 respPending, pagesUp>>
  /\ UNCHANGED <<env, unitVars>>

\* rs.on("close") of the image download: free the archive and the tmp dir
DownloadClose ==
  /\ dlOpen > 0
  /\ dlOpen' = dlOpen - 1
  /\ IF FREE_AFTER_DOWNLOAD
     THEN /\ job' = [job EXCEPT !.zipPath = FALSE, !.tmpDir = FALSE]
          /\ disk' = [tmpDir |-> IF job.tmpDir THEN FALSE ELSE disk.tmpDir,
                      files |-> IF job.tmpDir THEN 0 ELSE disk.files,
                      zip |-> IF job.zipPath THEN FALSE ELSE disk.zip]
     ELSE UNCHANGED <<job, disk>>
  /\ sent' = <<>>
  /\ started' = {}
  /\ stopped' = "no"
  /\ UNCHANGED <<jobs, body, conn, browser, signalAborted, pc, pl, wk, stopPc,
                 respPending, pagesUp>>
  /\ UNCHANGED <<env, unitVars>>

\* setInterval: jobs older than the retention window are dropped (old: the
\* job's age exceeds it)
Sweep ==
  /\ \E old \in BOOLEAN :
       IF old /\ JobId \in jobs
       THEN /\ jobs' = {}
            /\ conn' = [c \in Clients |-> IF c \in job.sseClients THEN "ended" ELSE conn[c]]
            /\ disk' = [tmpDir |-> IF job.tmpDir THEN FALSE ELSE disk.tmpDir,
                        files |-> IF job.tmpDir THEN 0 ELSE disk.files,
                        zip |-> IF job.zipPath THEN FALSE ELSE disk.zip]
       ELSE UNCHANGED <<jobs, conn, disk>>
  /\ stopped' = "no"
  /\ sent' = <<>>
  /\ started' = {}
  /\ UNCHANGED <<job, body, browser, signalAborted, pc, pl, wk, stopPc, respPending,
                 dlOpen, pagesUp>>
  /\ UNCHANGED <<env, unitVars>>

\* ======================================================= unit: canonical key
\* canonicalImageKey on image URLs of one origin and one path stem. A URL is its
\* file name's suffixes between the stem and the extension (in order), the
\* extension, whether it has upper-case letters, a kept query parameter (w), an
\* ignored one (a token) and a fragment. The key is itself such a URL string.
MaxSfx == 2         \* resize suffixes in one file name
Suffixes == {"-scaled", "@2x", "-1200x800", "_1200x800"}
PathExts == {"jpg", "j"}        \* "j": too short for the look-ahead \.[a-z0-9]{2,5}$
ImgUrls ==
  [sfx : UNION {[1..n -> Suffixes] : n \in 0..MaxSfx}, ext : PathExts,
   upper : BOOLEAN, w : BOOLEAN, token : BOOLEAN, hash : BOOLEAN]

\* p.replace(/<suffix>(?=\.[a-z0-9]{2,5}$)/i, ""): the suffix right before the extension
StripLast(q, x) == IF Len(q) > 0 /\ q[Len(q)] = x THEN SubSeq(q, 1, Len(q) - 1) ELSE q

\* the four replacements, once each, in the order of the source
StripSuffixes(q) ==
  StripLast(StripLast(StripLast(StripLast(q, "-scaled"), "@2x"), "-1200x800"), "_1200x800")

canonicalImageKey(u) ==
  [sfx |-> IF u.ext = "jpg" THEN StripSuffixes(u.sfx) ELSE u.sfx,
   ext |-> u.ext, upper |-> FALSE, w |-> u.w, token |-> FALSE, hash |-> FALSE]

CkIdle == [phase |-> "idle"]

\* const key = canonicalImageKey(rawUrl)
KeyDerive(u) ==
  /\ ck.phase = "idle"
  /\ ck' = [phase |-> "derived", url |-> u, key |-> canonicalImageKey(u)]
  /\ UNCHANGED <<jobVars, admVars, wp, cs, rg, uc, lk, ex>>

\* the key is derived again from the URL the key is (dedupe by canonical key again)
KeyRederive ==
  /\ ck.phase = "derived"
  /\ ck' = [phase |-> "rederived", url |-> ck.url, key |-> ck.key,
            rekey |-> canonicalImageKey(ck.key)]
  /\ UNCHANGED <<jobVars, admVars, wp, cs, rg, uc, lk, ex>>


\* ================================================== unit: URL candidate table
\* How many keys urlCandidates holds while pages, stylesheets and scripts are
\* scanned. Every call of considerUrlCandidate comes right after the size test of
\* its loop, with no await between the two.
\* process.env.MAX_URL_CANDIDATES tried (0: unset)
EnvMaxUrlCandidates == {0, 5, 2001}
\* Math.max(2_000, Math.min(Number(process.env.MAX_URL_CANDIDATES || 30_000), 200_000))
MAX_URL_CANDIDATES(e) == Max(2000, Min(IF e = 0 THEN 30000 ELSE e, 200000))

UcIdle == [phase |-> "idle", max |-> 0, size |-> 0, last |-> "none"]

\* the module is loaded and an image job starts scanning
UcStart(e) ==
  /\ uc.phase = "idle"
  /\ uc' = [UcIdle EXCEPT !.phase = "scan", !.max = MAX_URL_CANDIDATES(e)]
  /\ UNCHANGED <<jobVars, admVars, wp, cs, rg, ck, lk, ex>>

\* one round of a collecting loop at call site `site`: break when the table is
\* over the maximum, else considerUrlCandidate, which adds an entry when the key
\* is new (fresh) and otherwise leaves the size as it is
Collect(site, fresh) ==
  /\ uc.phase = "scan"
  /\ uc' = IF uc.size > uc.max THEN [uc EXCEPT !.last = "break"]
           ELSE [uc EXCEPT !.size = IF fresh THEN @ + 1 ELSE @, !.last = site]
  /\ UNCHANGED <<jobVars, admVars, wp, cs, rg, ck, lk, ex>>

\* ================================================= unit: concurrent DNS checks
\* resolvesToPrivateIp for one host name, called by admission checks that run at
\* the same time (the download workers of a job, or two jobs).
MaxChecks == 3      \* admission checks in flight together
Checks == 1..MaxChecks
LkIdle == [c \in Checks |-> "idle"]

\* resolvesToPrivateIp up to its await: a cached answer is returned, else dns.lookup
LkCall(c) ==
  /\ lk[c] = "idle"
  /\ lk' = [lk EXCEPT ![c] = IF dnsCache = "miss" THEN "lookup" ELSE dnsCache]
  /\ UNCHANGED <<jobVars, adm, dnsCache, dns, wp, cs, rg, ck, uc, ex>>

\* after await dns.lookup: dnsCache.set(hostname, isPriv); return isPriv
LkLookupDone(c) ==
  /\ lk[c] = "lookup"
  /\ LET isPriv == IF dns # "pub" THEN "priv" ELSE "pub"
     IN /\ dnsCache' = isPriv
        /\ lk' = [lk EXCEPT ![c] = isPriv]
  /\ UNCHANGED <<jobVars, adm, dns, wp, cs, rg, ck, uc, ex>>

\* ================================================ unit: text of one page
\* One call of extractSectionAuto. A pass yields the plain-text length of what it
\* extracted (stripTagsToTextLen) and, for the lightweight pass, whether the page
\* looks like a bot-verification interstitial.
TextLens == {0, 150, 199, 200, 300, 5000}

\* kept: "none" | "fast" | "safe"
ExIdle == [phase |-> "idle", fastLen |-> 0, fastCf |-> FALSE, safeLen |-> 0, kept |-> "none"]

\* if (!fastLooksCf && fastTextLen >= MIN_TEXT_CHARS) return the lightweight section
FastIsEnough(len, cf) == ~cf /\ len >= MIN_TEXT_CHARS

UseSafeWhenLonger(e, safeLen) == safeLen > e.fastLen
\* const useSafe = fastLooksCf || safeTextLen > fastTextLen
UseSafe(e, safeLen) == e.fastCf \/ safeLen > e.fastLen

\* extractSectionAuto up to the return of the lightweight section or to
\* await safePage.goto; ok: the lightweight navigation and extraction succeeded
\* and the job was not cancelled
ExFast(ok, len, cf) ==
  /\ ex.phase = "idle"
  /\ ex' = IF ~ok THEN [ExIdle EXCEPT !.phase = "thrown"]
           ELSE IF FastIsEnough(len, cf)
           THEN [ExIdle EXCEPT !.phase = "returned", !.fastLen = len, !.fastCf = cf,
                               !.kept = "fast"]
           ELSE [ExIdle EXCEPT !.phase = "safe", !.fastLen = len, !.fastCf = cf]
  /\ UNCHANGED <<jobVars, admVars, wp, cs, rg, ck, uc, lk>>

\* the full-fidelity pass; ok: its navigation succeeded, waitOutCloudflare
\* returned true, the job was not cancelled and the extraction succeeded
ExSafe(ok, len) ==
  /\ ex.phase = "safe"
  /\ ex' = IF ~ok THEN [ex EXCEPT !.phase = "thrown"]
           ELSE [ex EXCEPT !.phase = "returned", !.safeLen = len,
                           !.kept = IF UseSafe(ex, len) THEN "safe" ELSE "fast"]
  /\ UNCHANGED <<jobVars, admVars, wp, cs, rg, ck, uc, lk>>

\* the worker takes the next page
ExNext ==
  /\ ex.phase \in {"returned", "thrown"}
  /\ ex' = ExIdle
  /\ UNCHANGED <<jobVars, admVars, wp, cs, rg, ck, uc, lk>>

MoreIdle == ck = CkIdle /\ uc = UcIdle /\ lk = LkIdle /\ ex = ExIdle

\* ============================================================== unit: crawl
\* One call of crawlSite. URLs are normalized URL strings of the start URL's
\* origin, numbered from 1, the start URL; what a page links to is whatever
\* extractInternalLinks returns when the page is loaded.
MaxLinks == 3       \* distinct internal links of one page
SiteUrls == 1..4
\* Number(maxPages) in half pages (0: absent, zero or not a number):
\* -3, absent, 0.5, 1, 1.5, 2.5, 100
ReqMaxPagesHalf == {-6, 0, 1, 2, 3, 5, 200}
\* body.maxDepth: absent, or a number (-1, 0, 1, 7)
ReqMaxDepth == {<<>>, <<-1>>, <<0>>, <<1>>, <<7>>}
\* maxDepth: body.maxDepth ?? 2
DepthArg(b) == IF b = <<>> THEN 2 ELSE b[1]
\* URLs whose path matches an exclude pattern
ExcludeSets == {{}, {2}}
\* includePatterns: whether the list is non-empty, and the URLs whose path matches
\* one of its patterns
IncludeLists ==
  {[on |-> FALSE, m |-> {}], [on |-> TRUE, m |-> {1, 2, 3}], [on |-> TRUE, m |-> {2, 4}]}

EffMaxPagesNoCeiling(h) == Max(2, IF h = 0 THEN 2 * DefaultMaxPages ELSE h)
\* maxPages = Math.max(1, Math.min(Number(maxPages) || 25, HARD_MAX_PAGES)), in halves
EffMaxPagesHalf(h) ==
  Max(2, Min(IF h = 0 THEN 2 * DefaultMaxPages ELSE h, 2 * HARD_MAX_PAGES))
\* maxDepth = Math.max(0, Math.min(Number(maxDepth) || 2, 6)), d = Number(maxDepth)
EffMaxDepth(d) == Max(0, Min(IF d = 0 THEN 2 ELSE d, 6))

\* navs: the URLs page.goto was called with; enq: per URL, how often it was pushed
\* on the queue (counted up to 2); req: the maxDepth of the request; rdepth: the
\* depth each result was popped with; dropped: the URLs the exclude/include tests
\* rejected
CsIdle ==
  [phase |-> "idle", maxHalf |-> 2, maxDepth |-> 0, excl |-> {}, visited |-> {},
   queue |-> <<>>, results |-> <<>>, cur |-> [url |-> 0, depth |-> 0],
   navs |-> <<>>, enq |-> [u \in SiteUrls |-> 0],
   incl |-> [on |-> FALSE, m |-> {}], req |-> <<>>, rdepth |-> <<>>, dropped |-> {}]

SkipExcludedOnly(c, url) == url \in c.excl
\* if (excludePatterns.length && matchesAny(path, excludePatterns)) continue;
\* if (includePatterns.length && !matchesAny(path, includePatterns)) continue;
Skip(c, url) == url \in c.excl \/ (c.incl.on /\ url \notin c.incl.m)

AtMaxDepthNever(c, depth) == FALSE
\* if (depth >= maxDepth) continue;  (line 790)
AtMaxDepth(c, depth) == depth >= c.maxDepth

VisitedNever(c, url) == FALSE
\* if (!url || visited.has(url)) continue;  (line 773)
Visited(c, url) == url \in c.visited

LoopOnOneMore(c) == Len(c.queue) > 0 /\ 2 * Len(c.results) < c.maxHalf + 2
\* while (queue.length && results.length < maxPages)
LoopOn(c) == Len(c.queue) > 0 /\ 2 * Len(c.results) < c.maxHalf

\* the while loop from its head up to the next await page.goto, or to its exit
RECURSIVE CrawlWhile(_)
CrawlWhile(c) ==
  IF ~LoopOn(c)
  THEN [c EXCEPT !.phase = "closing"]
  ELSE LET item == Head(c.queue)
           c1 == [c EXCEPT !.queue = Tail(@)]
       IN IF Visited(c, item.url) THEN CrawlWhile(c1)
          ELSE LET c2 == [c1 EXCEPT !.visited = @ \cup {item.url}]
               IN IF Skip(c, item.url)
                  THEN CrawlWhile([c2 EXCEPT !.dropped = @ \cup {item.url}])
                  ELSE LET c3 == [c2 EXCEPT !.results = Append(@, item.url),
                                            !.rdepth = Append(@, item.depth)]
                       IN IF AtMaxDepth(c, item.depth) THEN CrawlWhile(c3)
                          ELSE [c3 EXCEPT !.phase = "nav", !.cur = item,
                                          !.navs = Append(@, item.url)]

FullNever(c) == FALSE
\* if (results.length + queue.length >= maxPages * 3) break;
Full(c) == 2 * (Len(c.results) + Len(c.queue)) >= c.maxHalf * 3

\* for (const link of links) { ... queue.push({ url: link, depth: depth + 1 }) }
RECURSIVE Enqueue(_, _)
Enqueue(c, links) ==
  IF links = <<>> THEN c
  ELSE IF Full(c) THEN c
  ELSE LET link == Head(links)
       IN IF link \in c.visited THEN Enqueue(c, Tail(links))
          ELSE IF Skip(c, link)
          THEN Enqueue([c EXCEPT !.dropped = @ \cup {link}], Tail(links))
          ELSE Enqueue([c EXCEPT !.queue = Append(@, [url |-> link, depth |-> c.cur.depth + 1]),
                                 !.enq[link] = Min(2, @ + 1)],
                       Tail(links))

\* arrays of distinct URLs: what extractInternalLinks can return
LinkLists ==
  {q \in UNION {[1..n -> SiteUrls] : n \in 0..MaxLinks} :
     \A i, j \in 1..Len(q) : i # j => q[i] # q[j]}

\* crawlSite(browser, startUrl, {maxPages, maxDepth, ...}) up to await browser.newPage
CrawlCall(h, b, x, ip) ==
  /\ cs.phase = "idle"
  /\ cs' = [CsIdle EXCEPT !.phase = "newPage", !.maxHalf = EffMaxPagesHalf(h),
                          !.maxDepth = EffMaxDepth(DepthArg(b)), !.excl = x,
                          !.incl = ip, !.req = b,
                          !.queue = <<[url |-> 1, depth |-> 0]>>,
                          !.enq[1] = 1]
  /\ UNCHANGED <<jobVars, admVars, wp, rg, moreVars>>

\* browser.newPage / configureBlocking returned: enter the loop
CrawlPageReady ==
  /\ cs.phase = "newPage"
  /\ cs' = CrawlWhile(cs)
  /\ UNCHANGED <<jobVars, admVars, wp, rg, moreVars>>

\* page.goto ... extractInternalLinks returned links, or one of them threw (catch {})
CrawlLinks ==
  /\ cs.phase = "nav"
  /\ \E ok \in BOOLEAN, links \in LinkLists :
       /\ ~ok => links = <<>>
       /\ cs' = CrawlWhile(IF ok THEN Enqueue(cs, links) ELSE cs)
  /\ UNCHANGED <<jobVars, admVars, wp, rg, moreVars>>

\* await page.close(); return results
CrawlReturned ==
  /\ cs.phase = "closing"
  /\ cs' = [cs EXCEPT !.phase = "returned"]
  /\ UNCHANGED <<jobVars, admVars, wp, rg, moreVars>>

\* ===================================================== unit: image registry
\* The two maps of runImagesJob and the payload files of job.tmpDir. A canonical
\* key keeps the URL's path, so the URLs of one key share their path extension;
\* the first key has none (its extension comes from the content type).
MaxSubs == 3        \* calls of considerUrlCandidate / considerBufferCandidate
RegKeys == {"/img?", "/a.jpg?"}
UrlVariants == {1, 2}            \* URLs of one key that differ in ignored parameters
BufLengths == {0, 1, 3}          \* buf.length
ContentTypes == {"image/png", "image/jpeg", ""}
\* canonicalImageKey(`data.${ext}`): new URL throws, the key is the string itself
DataKey(ext) == IF ext = "png" THEN "data.png" ELSE IF ext = "jpg" THEN "data.jpg" ELSE "data.img"
DataKeys == {"data.png", "data.jpg", "data.img"}

\* scoreImageUrl: the second variant carries a scored parameter the key ignores
scoreImageUrl(v) == IF v = 2 THEN 2 ELSE 0
extFromUrl(k) == IF k = "/a.jpg?" THEN "jpg" ELSE ""
extFromContentType(ct) ==
  IF ct = "image/png" THEN "png" ELSE IF ct = "image/jpeg" THEN "jpg" ELSE ""
\* const ext = extFromUrl(url) || extFromContentType(contentType) || "img"
ExtOf(k, ct) ==
  IF extFromUrl(k) # "" THEN extFromUrl(k)
  ELSE IF extFromContentType(ct) # "" THEN extFromContentType(ct) ELSE "img"

\* a Map entry is <<>> (absent) or <<record>>; order: the keys of bestByKey in
\* insertion order (the order Map.values() iterates in); files are named by key
\* hash and extension; ulog / blog: the submissions that reached scoring, in
\* order; archive: the entries queued with archive.file, in order of their number;
\* minBytes: the size filter of the job
RgIdle ==
  [n |-> 0, cancelRequested |-> FALSE,
   urlCandidates |-> [k \in RegKeys |-> <<>>],
   bestByKey |-> [k \in RegKeys \cup DataKeys |-> <<>>], order |-> <<>>,
   files |-> {}, ulog |-> <<>>, blog |-> <<>>,
   status |-> "running", archive |-> <<>>, minBytes |-> 0]

KeepsPrevUnlessLower(prev, finalScore) == prev # <<>> /\ prev[1].score > finalScore
\* if (prev && prev.score >= finalScore) return;
KeepsPrev(prev, finalScore) == prev # <<>> /\ prev[1].score >= finalScore

\* fs.writeFileSync(filePath, buf) with filePath = tmpDir/keyHash.ext
WriteFile(files, k, ext, v, len) ==
  {f \in files : ~(f.key = k /\ f.ext = ext)}
    \cup {[key |-> k, ext |-> ext, url |-> v, bytes |-> len]}

RegUrlCandidate(k, v, isData) ==
  /\ rg.n < MaxSubs /\ rg.status = "running"
  /\ IF isData \/ rg.cancelRequested
     THEN rg' = [rg EXCEPT !.n = @ + 1]
     ELSE LET sc == scoreImageUrl(v)
              prev == rg.urlCandidates[k]
              sub == [key |-> k, url |-> v, score |-> sc]
          IN rg' = [rg EXCEPT
                      !.n = @ + 1,
                      !.ulog = Append(@, sub),
                      !.urlCandidates[k] =
                         IF prev = <<>> \/ sc > prev[1].scoreUrlOnly
                         THEN <<[url |-> v, scoreUrlOnly |-> sc]>> ELSE @]
  /\ UNCHANGED <<jobVars, admVars, wp, cs, moreVars>>

\* considerBufferCandidate({ url, buf, contentType }) on registry r
BufferCandidate(r, k, v, len, ct) ==
  IF len = 0 \/ r.cancelRequested
  THEN [r EXCEPT !.n = @ + 1]
  ELSE LET ext == ExtOf(k, ct)
           finalScore == scoreImageUrl(v) + len
           prev == r.bestByKey[k]
           sub == [key |-> k, url |-> v, bytes |-> len, ext |-> ext, score |-> finalScore]
       IN IF KeepsPrev(prev, finalScore)
          THEN [r EXCEPT !.n = @ + 1, !.blog = Append(@, sub)]
          ELSE [r EXCEPT
                  !.n = @ + 1,
                  !.blog = Append(@, sub),
                  !.files = WriteFile(@, k, ext, v, len),
                  !.order = IF prev = <<>> THEN Append(@, k) ELSE @,
                  !.bestByKey[k] = <<[score |-> finalScore, ext |-> ext,
                                      url |-> v, bytes |-> len]>>]

RegBufferCandidate(k, v, len, ct) ==
  /\ rg.n < MaxSubs /\ rg.status = "running"
  /\ rg' = BufferCandidate(rg, k, v, len, ct)
  /\ UNCHANGED <<jobVars, admVars, wp, cs, moreVars>>

\* considerBufferCandidate when fs.writeFileSync throws (catch: ignore). The file
\* is opened with flag 'w' and written in a loop: either the open fails and the
\* file is as before, or it was truncated and holds the first part bytes of buf.
RegWriteThrows(k, v, len, ct, opened, part) ==
  /\ rg.n < MaxSubs /\ rg.status = "running"
  /\ len > 0 /\ ~rg.cancelRequested
  /\ part < len
  /\ ~KeepsPrev(rg.bestByKey[k], scoreImageUrl(v) + len)
  /\ rg' = [rg EXCEPT
              !.n = @ + 1,
              !.files = IF opened THEN WriteFile(@, k, ExtOf(k, ct), v, part) ELSE @]
  /\ UNCHANGED <<jobVars, admVars, wp, cs, moreVars>>

\* Array.from(bestByKey.values()): the records in insertion order, with their key
RegItemsFirstOnly(r) ==
  IF r.order = <<>> THEN <<>> ELSE <<[key |-> r.order[1], rec |-> r.bestByKey[r.order[1]][1]]>>
RegItems(r) == [i \in 1..Len(r.order) |-> [key |-> r.order[i], rec |-> r.bestByKey[r.order[i]][1]]]

\* items.sort((a, b) => (b.bytes || 0) - (a.bytes || 0)): a stable sort, so
\* records of equal size stay in the order they had
RECURSIVE SortBySizeDesc(_)
SortBySizeDesc(q) ==
  IF q = <<>> THEN <<>>
  ELSE LET rest == SortBySizeDesc(SubSeq(q, 1, Len(q) - 1))
           x == q[Len(q)]
           ahead == {i \in 1..Len(rest) : rest[i].rec.bytes >= x.rec.bytes}
           n == Cardinality(ahead)
       IN SubSeq(rest, 1, n) \o <<x>> \o SubSeq(rest, n + 1, Len(rest))

\* what archive.file(it.filePath, ...) puts in the archive: the bytes of the file
ReadFile(files, k, ext) == CHOOSE f \in files : f.key = k /\ f.ext = ext

\* steps 5 and 6 of runImagesJob up to status done: the archive entry number n is
\* the n-th of the sorted items, named n.ext
RegBuildArchive ==
  /\ rg.status = "running"
  /\ ~rg.cancelRequested
  /\ IF rg.order = <<>>
     THEN rg' = [rg EXCEPT !.status = "error"]
     ELSE LET items == SortBySizeDesc(RegItems(rg))
          IN rg' = [rg EXCEPT
                      !.status = "done",
                      !.archive = [i \in 1..Len(items) |->
                                     [ext |-> items[i].rec.ext, key |-> items[i].key,
                                      file |-> ReadFile(rg.files, items[i].key, items[i].rec.ext)]]]
  /\ UNCHANGED <<jobVars, admVars, wp, cs, moreVars>>

\* the STOP handler sets job.cancelRequested while the image job runs
RegCancel ==
  /\ ~rg.cancelRequested /\ rg.status = "running"
  /\ rg' = [rg EXCEPT !.cancelRequested = TRUE]
  /\ UNCHANGED <<jobVars, admVars, wp, cs, moreVars>>

\* ------------------------------------------- the sources of image payloads
\* One image job with its size filter: payloads reach considerBufferCandidate
\* from the response listener, from downloadAndConsider and from considerDataImage.
ReqMinKB == {-1, 0, 2}           \* Number(body.minKB || 0)
SrcLengths == {0, 1000, 3000}    \* buf.length, and the content-length header (0: none)
SrcKey == "/a.jpg?"

\* minKB = Math.max(0, Number(body.minKB || 0)); minBytes = Math.floor(minKB * 1024)
MinBytes(kb) == Max(0, kb) * 1024

\* runImagesJob reads body.minKB
SrcStart(kb) ==
  /\ rg.n = 0 /\ rg.status = "running" /\ rg.minBytes = 0 /\ ~rg.cancelRequested
  /\ MinBytes(kb) > 0
  /\ rg' = [rg EXCEPT !.minBytes = MinBytes(kb)]
  /\ UNCHANGED <<jobVars, admVars, wp, cs, moreVars>>

\* minBytes && x < minBytes
TooSmall(r, x) == r.minBytes # 0 /\ x < r.minBytes

\* p.on("response", ...) once resp.body() has returned buf
SrcResponse(v, ct, cl, len) ==
  /\ rg.n < MaxSubs /\ rg.status = "running"
  /\ rg' = IF \/ rg.cancelRequested
              \/ ct \notin {"image/png", "image/jpeg"}
              \/ (cl # 0 /\ TooSmall(rg, cl))
              \/ len = 0
              \/ TooSmall(rg, len)
           THEN [rg EXCEPT !.n = @ + 1]
           ELSE BufferCandidate(rg, SrcKey, v, len, ct)
  /\ UNCHANGED <<jobVars, admVars, wp, cs, moreVars>>

\* downloadAndConsider(url, minBytes, signal) once downloadBinary has returned;
\* headOk: the HEAD request answered, with content type hct and content-length cl
SrcDownload(v, headOk, hct, cl, got, ct, len) ==
  /\ rg.n < MaxSubs /\ rg.status = "running"
  /\ ~rg.cancelRequested
  /\ rg' = IF \/ (headOk /\ hct # "" /\ hct \notin {"image/png", "image/jpeg"})
              \/ (headOk /\ cl # 0 /\ TooSmall(rg, cl))
              \/ ~got
              \/ (ct # "" /\ ct \notin {"image/png", "image/jpeg"})
              \/ TooSmall(rg, len)
           THEN [rg EXCEPT !.n = @ + 1]
           ELSE BufferCandidate(rg, SrcKey, v, len, ct)
  /\ UNCHANGED <<jobVars, admVars, wp, cs, moreVars>>

\* considerDataImage(dataUrl) for a data URI of content type ct ("": not an
\* image data URI) whose payload decodes to len bytes
SrcDataImage(ct, len) ==
  /\ rg.n < MaxSubs /\ rg.status = "running"
  /\ rg' = IF ct = ""
           THEN [rg EXCEPT !.n = @ + 1]
           ELSE LET ext == IF extFromContentType(ct) # "" THEN extFromContentType(ct) ELSE "img"
                IN BufferCandidate(rg, DataKey(ext), 1, len, ct)
  /\ UNCHANGED <<jobVars, admVars, wp, cs, moreVars>>


\* ======================================================= unit: URL admission
\* The "1) URLs" stage of runPdfJob / runImagesJob with assertUrlAllowed and
\* resolvesToPrivateIp, for jobs run one after the other in one server process.
MaxList == 2        \* entries of body.urls
LIST_CAP == 40      \* .slice(0, 40)

\* first two octets of the literal IPv4 hosts tried
Ipv4s == {<<10, 0>>, <<127, 0>>, <<172, 16>>, <<172, 32>>, <<192, 168>>, <<169, 254>>, <<8, 8>>}
NoIp == <<0, 0>>
Hosts ==
  {[t |-> x, ip |-> NoIp] : x \in {"localhost", "v6", "name"}} \cup
  {[t |-> "v4", ip |-> x] : x \in Ipv4s}
\* what the caller can put in url / startUrl / urls[i]: a string new URL() rejects,
\* an ftp URL, an http(s) URL per host
Urls ==
  {[scheme |-> "none", host |-> [t |-> "name", ip |-> NoIp]],
   [scheme |-> "ftp", host |-> [t |-> "name", ip |-> NoIp]]} \cup
  {[scheme |-> "http", host |-> h] : h \in Hosts}

isIpV4(h) == h.t = "v4"
isIpV6(h) == h.t = "v6"
isPrivateIpV4(ip) ==
  LET a == ip[1]
      b == ip[2]
  IN \/ a < 0 \/ a > 255 \/ b < 0 \/ b > 255
     \/ a = 10
     \/ a = 127
     \/ a = 0
     \/ (a = 192 /\ b = 168)
     \/ (a = 172 /\ b >= 16 /\ b <= 31)
     \/ (a = 169 /\ b = 254)

\* normalizeUrl(u) is not null
Parses(u) == u.scheme # "none"

MsgPrivateByDns == "Host risolve a IP privato (bloccato)"
\* assertUrlAllowed up to its await: the message of the Error thrown, "" if none
AssertSync(u) ==
  IF ~Parses(u) THEN "URL non valido"
  ELSE IF u.scheme # "http" THEN "Protocollo non consentito"
  ELSE IF u.host.t = "localhost" THEN "Host bloccato"
  ELSE IF isIpV6(u.host) THEN "Host IPv6 bloccato"
  ELSE IF isIpV4(u.host) /\ isPrivateIpV4(u.host.ip) THEN "IP privato bloccato"
  ELSE ""

\* the message for a url / startUrl that normalizeUrl rejects
InvalidMsg(k, m) ==
  IF k = "pdf"
  THEN (IF m = "single" THEN "Manca url / url non valido"
        ELSE "Manca startUrl / startUrl non valido")
  ELSE (IF m = "single" THEN "URL non valido" ELSE "startUrl non valido")

Take(q, n) == SubSeq(q, 1, Min(n, Len(q)))

AdmIdle ==
  [phase |-> "idle", kind |-> "pdf", mode |-> "single", urls |-> <<>>, i |-> 0,
   msg |-> "", sawPrivate |-> FALSE]

\* for (const u of urls) await assertUrlAllowed(u), from urls[i] on, up to the next
\* dns.lookup: cache is dnsCache.get of the host name ("miss": no entry); saw
\* records that a URL passed while its host name resolved to a private address
RECURSIVE Admit(_, _, _, _)
Admit(a, i, cache, saw) ==
  IF i > Len(a.urls) THEN [a EXCEPT !.phase = "go", !.i = i, !.sawPrivate = saw]
  ELSE LET u == a.urls[i]
           m == AssertSync(u)
       IN IF m # "" THEN [a EXCEPT !.phase = "error", !.i = i, !.msg = m, !.sawPrivate = saw]
          ELSE IF isIpV4(u.host) THEN Admit(a, i + 1, cache, saw)
          ELSE IF cache = "miss" THEN [a EXCEPT !.phase = "lookup", !.i = i, !.sawPrivate = saw]
          ELSE IF cache = "priv"
          THEN [a EXCEPT !.phase = "error", !.i = i, !.msg = MsgPrivateByDns,
                         !.sawPrivate = saw]
          ELSE Admit(a, i + 1, cache, saw \/ dns = "priv")

\* a job reaches its URL stage with body.url / body.startUrl / body.urls = us
AdmitRequest(k, m, us) ==
  /\ adm.phase # "lookup"
  /\ LET urls == IF m = "list" THEN Take(SelectSeq(us, Parses), LIST_CAP)
                 ELSE SelectSeq(us, Parses)
         a == [AdmIdle EXCEPT !.kind = k, !.mode = m, !.urls = urls]
     IN adm' = IF m # "list" /\ urls = <<>>
               THEN [a EXCEPT !.phase = "error", !.msg = InvalidMsg(k, m)]
               ELSE IF urls = <<>> THEN [a EXCEPT !.phase = "error", !.msg = "Lista vuota"]
               ELSE Admit(a, 1, dnsCache, FALSE)
  /\ UNCHANGED <<dnsCache, dns, jobVars, wp, cs, rg, moreVars>>

\* resolvesToPrivateIp after await dns.lookup: the answer (or the failure) is cached
LookupDone ==
  /\ adm.phase = "lookup"
  /\ LET isPriv == dns # "pub"
         c == IF isPriv THEN "priv" ELSE "pub"
     IN /\ dnsCache' = c
        /\ adm' = IF isPriv
                  THEN [adm EXCEPT !.phase = "error", !.msg = MsgPrivateByDns]
                  ELSE Admit(adm, adm.i + 1, c, adm.sawPrivate)
  /\ UNCHANGED <<dns, jobVars, wp, cs, rg, moreVars>>

\* the DNS records of the host name change
DnsChange ==
  /\ dns' \in {"pub", "priv", "fail"} \ {dns}
  /\ UNCHANGED <<adm, dnsCache, jobVars, wp, cs, rg, moreVars>>

AdmitStart ==
  /\ adm = AdmIdle
  /\ dnsCache = "miss"
  /\ dns = "pub"

AdmitNext ==
  \/ \E k \in Kinds, m \in {"single", "site"}, u \in Urls : AdmitRequest(k, m, <<u>>)
  \/ \E k \in Kinds, n \in 0..MaxList :
       \E us \in [1..n -> Urls] : AdmitRequest(k, "list", us)
  \/ LookupDone
  \/ DnsChange

\* ========================================================= unit: worker pool
\* One call runWithWorkerPool(items, workerCount, workerFn) for an arbitrary
\* workerFn whose invocations return or throw, in any order.
MaxItems == 3       \* items.length
\* process.env settings tried for the ceilings (0: unset)
PoolEnvs == [CONCURRENCY : {0, 2, 50}, IMG_DL_CONCURRENCY : {0, 1, 50}]
PoolWorkers == 1..MaxItems
\* the value workerFn returns for items[i]
F(i) == 10 + i

\* as many workers as items, whatever the configured concurrency
PageWorkersPerItem(n) == n

\* Math.min(CONCURRENCY, urls.length): runPdfJob 1024, runImagesJob 1339
PageWorkers(n) == Min(CONCURRENCY, n)
\* Math.min(IMG_DL_CONCURRENCY, Math.max(1, finalUrlList.length))
DlWorkers(n) == Min(IMG_DL_CONCURRENCY, Max(1, n))

\* st[w]: the item (1-based) of worker w's invocation in flight, 0 once the worker
\* has returned (or never ran), -1 once it has thrown; results: 0 is null;
\* ret[i]: what the invocation for item i returned (-1: it has not returned);
\* sections: extracted.filter(Boolean) of the text pipeline
WpIdle ==
  [phase |-> "idle", kind |-> "page", n |-> 0, W |-> 0, nextIndex |-> 0,
   results |-> <<>>, st |-> [w \in PoolWorkers |-> 0], calls |-> <<>>, order |-> <<>>,
   ret |-> <<>>, sections |-> <<>>]

\* the value put in the first free slot instead
StoreInCompletionOrder(res, i, v) ==
  LET free == {k \in 1..Len(res) : res[k] = 0}
  IN IF free = {} THEN res
     ELSE [res EXCEPT ![CHOOSE k \in free : \A x \in free : k <= x] = v]

\* results[i] = <value>
Store(res, i, v) == [res EXCEPT ![i] = v]

InFlight(p) == {w \in PoolWorkers : p.st[w] > 0}
\* await Promise.all(workers): resolved once every worker returned, rejected at the
\* first worker that throws
Settle(p) ==
  IF p.phase # "running" THEN p
  ELSE IF \E w \in PoolWorkers : p.st[w] = -1 THEN [p EXCEPT !.phase = "rejected"]
  ELSE IF InFlight(p) = {} THEN [p EXCEPT !.phase = "resolved"]
  ELSE p

\* the call: each worker(id) runs to its first await in turn
PoolCall(k, n) ==
  /\ wp.phase = "idle"
  /\ k = "page" => n >= 1
  /\ LET W == IF k = "page" THEN PageWorkers(n) ELSE DlWorkers(n)
         p == [WpIdle EXCEPT !.phase = "running", !.kind = k, !.n = n, !.W = W,
                             !.nextIndex = W,
                             !.results = [i \in 1..n |-> 0],
                             !.st = [w \in PoolWorkers |-> IF w <= W /\ w <= n THEN w ELSE 0],
                             !.calls = [i \in 1..n |-> IF i <= W THEN 1 ELSE 0],
                             !.ret = [i \in 1..n |-> -1]]
     IN wp' = Settle(p)
  /\ UNCHANGED <<jobVars, admVars, cs, rg, moreVars>>

\* worker w: its invocation returned a value (some: F(i)) or null (the per-item
\* functions of both pipelines return null for an item that failed); store, take
\* the next index, call or leave
WorkerReturn(w, some) ==
  /\ wp.st[w] > 0
  /\ LET i == wp.st[w]
         j == wp.nextIndex
         v == IF some THEN F(i) ELSE 0
         p == [wp EXCEPT !.results = Store(wp.results, i, v),
                         !.ret[i] = v,
                         !.order = Append(@, i),
                         !.nextIndex = j + 1,
                         !.st[w] = IF j >= wp.n THEN 0 ELSE j + 1,
                         !.calls = IF j >= wp.n THEN @ ELSE [@ EXCEPT ![j + 1] = @ + 1]]
     IN wp' = Settle(p)
  /\ UNCHANGED <<jobVars, admVars, cs, rg, moreVars>>

\* a throw that also ends the other workers
WorkerThrowStopsAll(w) ==
  /\ wp.st[w] > 0
  /\ wp' = Settle([wp EXCEPT !.st = [x \in PoolWorkers |-> IF x = w THEN -1 ELSE 0],
                             !.order = Append(@, wp.st[w])])
  /\ UNCHANGED <<jobVars, admVars, cs, rg, moreVars>>

\* worker w: its invocation threw; the worker's promise rejects
WorkerThrow(w) ==
  /\ wp.st[w] > 0
  /\ wp' = Settle([wp EXCEPT !.st[w] = -1, !.order = Append(@, wp.st[w])])
  /\ UNCHANGED <<jobVars, admVars, cs, rg, moreVars>>

SectionsUnfiltered(extracted) == extracted
\* const sections = extracted.filter(Boolean)
Sections(extracted) == SelectSeq(extracted, LAMBDA x : x # 0)

\* runPdfJob after the pool call returned: the sections of the document, in the
\* order buildCombinedHtml maps them; no section: the job fails
TextSections ==
  /\ wp.phase = "resolved"
  /\ wp.kind = "page"
  /\ LET sections == Sections(wp.results)
     IN wp' = [wp EXCEPT !.sections = sections,
                         !.phase = IF sections = <<>> THEN "nosections" ELSE "document"]
  /\ UNCHANGED <<jobVars, admVars, cs, rg, moreVars>>

PoolInit ==
  /\ env \in PoolEnvs
  /\ JobIdle /\ AdmitStart /\ wp = WpIdle /\ cs = CsIdle /\ rg = RgIdle /\ MoreIdle

PoolNext ==
  \/ \E k \in {"page", "dl"}, n \in 0..MaxItems : PoolCall(k, n)
  \/ \E w \in PoolWorkers, some \in BOOLEAN : WorkerReturn(w, some)
  \/ \E w \in PoolWorkers : WorkerThrow(w)
  \/ TextSections

PoolSpec == PoolInit /\ [][PoolNext]_vars

JobInit ==
  /\ env \in [CONCURRENCY : EnvConcurrency, IMG_DL_CONCURRENCY : EnvImgDlConcurrency]
  /\ JobIdle

Init == JobInit /\ AdmitStart /\ wp = WpIdle /\ cs = CsIdle /\ rg = RgIdle /\ MoreIdle

AdmitInit == Init
AdmitSpec == AdmitInit /\ [][AdmitNext]_vars

CrawlInit == Init

CrawlNext ==
  \/ \E h \in ReqMaxPagesHalf, b \in ReqMaxDepth, x \in ExcludeSets, ip \in IncludeLists :
       CrawlCall(h, b, x, ip)
  \/ CrawlPageReady
  \/ CrawlLinks
  \/ CrawlReturned

CrawlSpec == CrawlInit /\ [][CrawlNext]_vars

\* every await of crawlSite settles: newPage, goto (25 s timeout) and the
\* evaluation of the links return or throw, page.close returns
CrawlFairSpec ==
  /\ CrawlInit /\ [][CrawlNext]_vars
  /\ WF_vars(CrawlPageReady) /\ WF_vars(CrawlLinks) /\ WF_vars(CrawlReturned)

RegistryInit == Init

RegistryNext ==
  \/ \E k \in RegKeys, v \in UrlVariants, isData \in BOOLEAN : RegUrlCandidate(k, v, isData)
  \/ \E k \in RegKeys, v \in UrlVariants, len \in BufLengths, ct \in ContentTypes :
       RegBufferCandidate(k, v, len, ct)
  \/ RegCancel
  \/ RegBuildArchive

RegistrySpec == RegistryInit /\ [][RegistryNext]_vars

\* the registry with disk faults
RegistryFaultNext ==
  \/ RegistryNext
  \/ \E k \in RegKeys, v \in UrlVariants, len \in BufLengths, ct \in ContentTypes :
       \E opened \in BOOLEAN, part \in 0..1 : RegWriteThrows(k, v, len, ct, opened, part)

RegistryFaultSpec == RegistryInit /\ [][RegistryFaultNext]_vars

\* an image job fed by its three sources
SourceInit == Init

SourceNext ==
  \/ \E kb \in ReqMinKB : SrcStart(kb)
  \/ \E v \in UrlVariants, ct \in ContentTypes, cl \in SrcLengths, len \in SrcLengths :
       SrcResponse(v, ct, cl, len)
  \/ \E v \in UrlVariants, headOk \in BOOLEAN, hct \in ContentTypes, cl \in SrcLengths,
        got \in BOOLEAN, ct \in ContentTypes, len \in SrcLengths :
       SrcDownload(v, headOk, hct, cl, got, ct, len)
  \/ \E ct \in ContentTypes \cup {"image/x"}, len \in SrcLengths : SrcDataImage(ct, len)
  \/ RegCancel
  \/ RegBuildArchive

SourceSpec == SourceInit /\ [][SourceNext]_vars

KeyInit == Init

KeyNext ==
  \/ \E u \in ImgUrls : KeyDerive(u)
  \/ KeyRederive

KeySpec == KeyInit /\ [][KeyNext]_vars

TableInit == Init

TableNext ==
  \/ \E e \in EnvMaxUrlCandidates : UcStart(e)
  \/ \E site \in {"dom", "css", "js"}, fresh \in BOOLEAN : Collect(site, fresh)

TableSpec == TableInit /\ [][TableNext]_vars

DnsInit == Init

DnsNext ==
  \/ \E c \in Checks : LkCall(c)
  \/ \E c \in Checks : LkLookupDone(c)
  \/ DnsChange

DnsSpec == DnsInit /\ [][DnsNext]_vars

TextInit == Init

TextNext ==
  \/ \E ok \in BOOLEAN, len \in TextLens, cf \in BOOLEAN : ExFast(ok, len, cf)
  \/ \E ok \in BOOLEAN, len \in TextLens : ExSafe(ok, len)
  \/ ExNext

TextSpec == TextInit /\ [][TextNext]_vars

Next ==
  \/ \E k \in Kinds, m \in Modes :
       \E mp \in (IF m = "site" THEN ReqMaxPages ELSE {0}) : Start(k, m, mp)
  \/ LaunchDone
  \/ ContextDone
  \/ AssertDone
  \/ CrawlNewPageDone
  \/ CrawlNavDone
  \/ CrawlCloseDone
  \/ PagesDone
  \/ \E w \in Workers : TextWorker(w)
  \/ ClosePagesText
  \/ PdfRenderDone
  \/ \E w \in Workers : ScanWorker(w)
  \/ ClosePagesImages
  \/ \E w \in Workers : DlWorker(w)
  \/ FinalizeDone
  \/ ResponseBegin
  \/ ResponseEnd
  \/ TeardownCtxDone
  \/ TeardownBrowserDone
  \/ StopRequest
  \/ StopFinish
  \/ \E c \in Clients : Connect(c)
  \/ \E c \in Clients : Disconnect(c)
  \/ \E ep \in Kinds : Fetch(ep)
  \/ DownloadClose
  \/ Sweep

Spec == Init /\ [][Next]_vars

\* every await of the two pipelines and of the STOP handler settles: renderer
\* calls return or throw, navigations and fetches have timeouts, the archive's
\* output stream closes or fails; the asset loops of a scanned page run over
\* lists cut to 120, 40 and 120 entries, so the page is eventually finished
FairSpec ==
  /\ Init /\ [][Next]_vars
  /\ WF_vars(LaunchDone) /\ WF_vars(ContextDone) /\ WF_vars(AssertDone)
  /\ WF_vars(CrawlNewPageDone) /\ WF_vars(CrawlNavDone) /\ WF_vars(CrawlCloseDone)
  /\ WF_vars(PagesDone)
  /\ \A w \in Workers : WF_vars(TextWorker(w)) /\ WF_vars(ScanWorker(w)) /\ WF_vars(DlWorker(w))
  /\ WF_vars(ClosePagesText) /\ WF_vars(PdfRenderDone)
  /\ WF_vars(ClosePagesImages) /\ WF_vars(FinalizeDone) /\ WF_vars(ResponseEnd)
  /\ WF_vars(TeardownCtxDone) /\ WF_vars(TeardownBrowserDone) /\ WF_vars(StopFinish)
  /\ \A w \in Workers : SF_vars(ScanWorker(w) /\ wk'[w] \notin {"assetDns", "assetGet"})
\* ------------------------------------------------------------------ claims
Terminal == {"done", "error"}
CancelMessages == {MsgStop, MsgCanceled}
\* the artifact reference the job's own download endpoint reads
HasArtifact == IF body.kind = "pdf" THEN job.pdfBuffer ELSE job.zipPath

\* C1: once the status of a job is done or error it never changes again.
C1_TerminalStatusIsFinal ==
  [][job.status \in Terminal => job'.status = job.status]_vars

\* C2: after a cancel request was accepted for a running job, every artifact-fetch
\* for that job (while the registry still knows it) returns the error outcome.
C2_CancelledFetchIsError ==
  (job.cancelRequested /\ JobId \in jobs) => FetchResult(body.kind).code = "error"

\* C3: of two successive snapshots on the progress stream, the later one, when its
\* status is running, has a percent not below the earlier one's, and percent is
\* always within 0..100.
C3_PercentMonotonic ==
  [][/\ job'.percent \in 0..100
     /\ \A i \in 1..Len(sent') :
          /\ sent'[i].percent \in 0..100
          /\ sent'[i].status = "running" =>
               sent'[i].percent >= (IF i = 1 THEN job.percent ELSE sent'[i - 1].percent)]_vars
\* a pool worker's snapshot for a later item, after an earlier item completed,
\* published while the job is running
C3_Witness ==
  /\ pc \in {"pool", "dlPool"}
  /\ Len(sent) > 0
  /\ sent[Len(sent)].status = "running"
  /\ sent[Len(sent)].current > 0
  /\ sent[Len(sent)].percent > 24

\* C4: once the cancellation flag is set, no step of the pipeline starts a page
\* navigation or a network fetch.
C4_NoBlockingStepAfterCancel ==
  [][job.cancelRequested => (started' \cap {"nav", "fetch"}) = {}]_vars

\* C5: a job with an accepted cancel request ends (pipeline finished) with the
\* user-cancellation message, as its last snapshot's message and as its error.
C5_CancelMessageFinal ==
  (job.cancelRequested /\ pc = "finished") =>
     (job.message \in CancelMessages /\ job.error \in CancelMessages)

\* C6: a cancel request for a job whose status is done or error changes no field
\* of the job, publishes nothing and touches neither the abort signal nor the
\* renderer session nor the subscriptions.
C6_CancelOfTerminalJobIsNoOp ==
  [][(stopped' \in {"accepted", "ignored"} /\ job.status \in Terminal) =>
        (job' = job /\ sent' = <<>> /\ UNCHANGED <<signalAborted, browser, conn, stopPc>>)]_vars
\* a second cancel request on a job that was cancelled before
C6_Witness ==
  stopped = "ignored" /\ job.status = "error" /\ job.cancelRequested

\* C7: an accepted cancel request sets the flag and the error status in one step and
\* fires the abort signal of the job when it has one; when the request is answered,
\* every subscription that was on the job has been ended and the set is empty.
C7_CancelEffects ==
  [][/\ job'.cancelRequested => job'.status # "running"
     /\ stopped' = "accepted" =>
          /\ job'.cancelRequested /\ job'.status = "error"
          /\ job.abortController => signalAborted'
     /\ stopped' = "answered" =>
          /\ job'.sseClients = {}
          /\ \A c \in job.sseClients : conn'[c] = "ended"
          /\ \A c \in Clients : conn'[c] # "open"]_vars
\* the cancel request was answered after ending a subscription, the job's abort
\* controller (still referenced: the pipeline's finally has not run) aborted
C7_Witness ==
  /\ stopped = "answered" /\ JobId \in jobs
  /\ \E c \in Clients : conn[c] = "ended"
  /\ job.abortController /\ signalAborted

\* C8: a cancelled job whose pipeline has finished its teardown and that the sweep
\* has dropped leaves neither its temporary directory nor its archive file, in
\* every later state too.
C8_NoTempFilesAfterSweep ==
  (job.cancelRequested /\ pc = "finished" /\ JobId \notin jobs) =>
     (~disk.tmpDir /\ disk.files = 0 /\ ~disk.zip)
\* an image job cancelled after its archive file was created, torn down and swept
C8_Witness ==
  /\ job.cancelRequested /\ pc = "finished" /\ JobId \notin jobs
  /\ body.kind = "images" /\ job.zipPath

\* C9 as stated: not-found iff unknown, not-ready iff running, the error iff error,
\* the artifact iff done.
C9_FetchFollowsStatus ==
  LET r == FetchResult(body.kind).code
  IN /\ (r = "notfound") <=> (JobId \notin jobs)
     /\ (r = "notready") <=> (JobId \in jobs /\ job.status = "running")
     /\ (r = "error") <=> (JobId \in jobs /\ job.status = "error")
     /\ (r = "artifact") <=> (JobId \in jobs /\ job.status = "done")
\* C9 amended: the artifact iff done and the artifact reference is still held;
\* not-ready iff running, or done with the reference released.
C9_FetchFollowsStatusAndArtifact ==
  LET r == FetchResult(body.kind).code
  IN /\ (r = "notfound") <=> (JobId \notin jobs)
     /\ (r = "notready") <=>
          (JobId \in jobs /\ (job.status = "running" \/ (job.status = "done" /\ ~HasArtifact)))
     /\ (r = "error") <=> (JobId \in jobs /\ job.status = "error")
     /\ (r = "artifact") <=> (JobId \in jobs /\ job.status = "done" /\ HasArtifact)
\* a done text job whose document was fetched and released
C9_Witness ==
  /\ JobId \in jobs /\ body.kind = "pdf" /\ job.status = "done" /\ ~job.pdfBuffer
  /\ FetchResult("pdf").code = "notready"

\* C10: whenever the status is error, the message artifact-fetch returns is the
\* message of the latest snapshot.
C10_FetchErrorIsLastMessage ==
  (JobId \in jobs /\ job.status = "error") => FetchResult(body.kind).msg = job.message
\* C11: a subscriber that connects to an existing job is written the job's current
\* snapshot first; every snapshot published afterwards is written, in order, to every
\* subscriber connected at that moment; and every change of status, percent,
\* message, current or total is published.
C11_SubscribersGetEverySnapshot ==
  [][/\ \A c \in Clients :
          (conn[c] # "open" /\ conn'[c] = "open") =>
             (sent' = <<[Snap(job) EXCEPT !.to = {c}]>> /\ c \in job'.sseClients)
     /\ (\A c \in Clients : conn[c] = "open" <=> conn'[c] = "open") =>
          /\ \A i \in 1..Len(sent') :
                \A c \in Clients : conn[c] = "open" => c \in sent'[i].to
          /\ Payload(job') # Payload(job) =>
                (Len(sent') > 0 /\ Payload(sent'[Len(sent')]) = Payload(job'))]_vars
\* a pool worker's snapshot was written to a connected subscriber
C11_Witness ==
  /\ pc = "pool" /\ Len(sent) > 0
  /\ \E c \in Clients : conn[c] = "open" /\ c \in sent[Len(sent)].to
  /\ sent[Len(sent)].current > 0
  /\ started # {}
\* ---------------------------------------------------- claims on AdmitSpec
\* the hosts the admission policy names: literal IPv6, literal private (10/8,
\* 172.16/12, 192.168/16), loopback (127/8) and link-local (169.254/16) IPv4
PolicyBlocked(u) ==
  \/ u.scheme # "http"
  \/ u.host.t \in {"v6", "localhost"}
  \/ /\ u.host.t = "v4"
     /\ \/ u.host.ip[1] \in {10, 127}
        \/ u.host.ip = <<192, 168>>
        \/ (u.host.ip[1] = 172 /\ u.host.ip[2] \in 16..31)
        \/ u.host.ip = <<169, 254>>
BlockedMsgs ==
  {"Protocollo non consentito", "Host bloccato", "Host IPv6 bloccato",
   "IP privato bloccato", MsgPrivateByDns}

\* C12: a job goes on to navigate only if every URL it keeps of the supplied ones is
\* allowed by the policy and resolved to no private address when it was checked;
\* a job with a policy-blocked URL, or one resolving to a private address, ends in
\* error with a blocked-host message.
C12_NoNavigationUnlessAdmitted ==
  LET bad == adm.sawPrivate \/ \E i \in 1..Len(adm.urls) : PolicyBlocked(adm.urls[i])
  IN /\ adm.phase = "go" => ~bad
     /\ (adm.phase \in {"go", "error"} /\ bad) =>
          (adm.phase = "error" /\ adm.msg \in BlockedMsgs)
\* ----------------------------------------------------- claims on PoolSpec
\* C13: the array a worker-pool call returns has the length of the input and holds
\* at i the value the per-item function returned for items[i].
C13_ResultsInInputOrder ==
  wp.phase = "resolved" =>
     (Len(wp.results) = wp.n /\ \A i \in 1..wp.n : wp.results[i] = wp.ret[i] /\ wp.ret[i] \in {0, F(i)})
\* a call returned although a later item completed before an earlier one
C13_Witness ==
  /\ wp.phase = "resolved" /\ wp.n >= 2
  /\ \E a, b \in 1..Len(wp.order) : a < b /\ wp.order[a] > wp.order[b]

\* C14: never more than W invocations are in flight, and W is at most the configured
\* concurrency, which is at most 10 for page workers and 16 for image downloads.
C14_AtMostWInFlight ==
  wp.phase # "idle" =>
     /\ Cardinality(InFlight(wp)) <= wp.W
     /\ wp.W <= (IF wp.kind = "page" THEN CONCURRENCY ELSE IMG_DL_CONCURRENCY)
     /\ CONCURRENCY <= 10 /\ IMG_DL_CONCURRENCY <= 16
\* a pool with more items than workers: an invocation has completed, its worker
\* took the next item and all W workers are busy again
C14_Witness ==
  /\ wp.phase = "running" /\ wp.n > wp.W /\ wp.W >= 2
  /\ Cardinality(InFlight(wp)) = wp.W /\ Len(wp.order) >= 1

\* C15: the call settles only after each of the N items was passed to the per-item
\* function exactly once and none of the invocations is still in flight.
C15_SettlesAfterAllItems ==
  wp.phase \in {"resolved", "rejected"} =>
     /\ \A i \in 1..wp.n : wp.calls[i] = 1
     /\ InFlight(wp) = {}

\* ------------------------------------------------------------------ crawl
NoDup(q) == \A i, j \in 1..Len(q) : i # j => q[i] # q[j]

\* C16 (as stated): for any requested max pages a crawl returns at most its
\* effective max pages URLs, and the effective max pages is within 1..80.
C16_AtMostEffectiveMaxPages ==
  cs.phase # "idle" =>
    /\ 2 <= cs.maxHalf /\ cs.maxHalf <= 2 * HARD_MAX_PAGES
    /\ 2 * Len(cs.results) <= cs.maxHalf

\* C16 (amended): the effective max pages is within 1..80, and a crawl returns
\* fewer than effective max pages + 1 URLs (at most the effective value rounded
\* up to a whole number), never more than 80.
C16_AtMostEffectiveMaxPagesRoundedUp ==
  cs.phase # "idle" =>
    /\ 2 <= cs.maxHalf /\ cs.maxHalf <= 2 * HARD_MAX_PAGES
    /\ 2 * Len(cs.results) < cs.maxHalf + 2
    /\ Len(cs.results) <= HARD_MAX_PAGES

C16_Witness ==
  /\ cs.phase = "returned"
  /\ cs.maxHalf = 2
  /\ Len(cs.results) = 1
  /\ Len(cs.queue) > 0

\* C17: within one crawl no normalized URL is accepted twice (the returned list
\* has no duplicates) and no URL is navigated to more than once.
C17_NoUrlAcceptedOrNavigatedTwice ==
  NoDup(cs.results) /\ NoDup(cs.navs)

C17_Witness ==
  /\ cs.phase = "returned"
  /\ Len(cs.navs) >= 2
  /\ \E u \in SiteUrls : cs.enq[u] = 2 /\ \E i \in 1..Len(cs.results) : cs.results[i] = u

\* C18: within one crawl each normalized URL is put on the frontier queue at most
\* once: the queue never holds two entries for the same URL, and a URL already
\* enqueued is never enqueued again.
C18_EnqueuedAtMostOnce ==
  /\ \A i, j \in 1..Len(cs.queue) : i # j => cs.queue[i].url # cs.queue[j].url
  /\ \A u \in SiteUrls : cs.enq[u] <= 1

\* --------------------------------------------------------- image registry
\* C19: at any time, for every canonical key, temporary storage holds at most
\* one payload file for that key and the registry at most one record; a better
\* representation supersedes the earlier payload, which does not remain stored
\* beside the new one, whatever the content type or derived extension.
C19_OnePayloadFilePerKey ==
  \A k \in RegKeys :
    /\ Len(rg.bestByKey[k]) <= 1
    /\ Cardinality({f \in rg.files : f.key = k}) <= 1
    /\ \A f \in rg.files :
         f.key = k => /\ rg.bestByKey[k] # <<>>
                      /\ f.ext = rg.bestByKey[k][1].ext
                      /\ f.bytes = rg.bestByKey[k][1].bytes

\* the submissions of log q for key k, in order
RECURSIVE ForKey(_, _)
ForKey(q, k) ==
  IF q = <<>> THEN <<>>
  ELSE IF Head(q).key = k THEN <<Head(q)>> \o ForKey(Tail(q), k) ELSE ForKey(Tail(q), k)

\* the first submission of q whose score is the maximum of the scores in q
FirstBest(q) ==
  q[CHOOSE i \in 1..Len(q) :
      /\ \A j \in 1..Len(q) : q[j].score <= q[i].score
      /\ \A j \in 1..(i - 1) : q[j].score < q[i].score]

C21_StoredBytesAreTheRecordsPayload ==
  \A k \in RegKeys :
    rg.bestByKey[k] # <<>> =>
      LET r == rg.bestByKey[k][1]
      IN \A f \in rg.files :
           (f.key = k /\ f.ext = r.ext) => (f.url = r.url /\ f.bytes = r.bytes)

\* ----------------------------------------------------------- canonical key
\* the resize suffixes the statement names
NamedSuffixes == {"-scaled", "@2x", "-1200x800"}

\* C22: canonicalization is idempotent and collapses resize variants: the key
\* derived from a URL built from a canonical key is that key, and every
\* representation of one image with -WxH, -scaled or @Nx suffixes, in any
\* combination before the extension, gives the key of the image without suffix.
C22_KeyIdempotentAndCollapsesVariants ==
  /\ ck.phase = "rederived" => ck.rekey = ck.key
  /\ (/\ ck.phase # "idle"
      /\ ck.url.ext = "jpg"
      /\ \A i \in 1..Len(ck.url.sfx) : ck.url.sfx[i] \in NamedSuffixes)
     => ck.key.sfx = <<>>

KeyOrders(r) ==
  {o \in [1..Len(r.order) -> RegKeys] :
     \A k \in RegKeys : (r.bestByKey[k] # <<>>) <=> (\E i \in 1..Len(o) : o[i] = k)}

\* C24: the numbering of the archive's files is a function of the final set of
\* registry entries only: whatever order the entries were inserted in, every
\* payload gets the same sequence number, and the numbers follow descending size.
C24_NumberingIndependentOfOrder ==
  rg.status = "done" =>
    /\ \A i, j \in 1..Len(rg.archive) :
         i < j => rg.archive[i].file.bytes >= rg.archive[j].file.bytes
    /\ \A o \in KeyOrders(rg) :
         LET items == SortBySizeDesc(RegItems([rg EXCEPT !.order = o]))
         IN \A i \in 1..Len(items) : items[i].key = rg.archive[i].key

\* ---------------------------------------------------------- text sections
\* C25: the sections of the final document appear in the order of the input URL
\* list, with failed pages omitted, for every completion order of the extractions.
C25_SectionsInInputOrder ==
  wp.phase \in {"document", "nosections"} =>
    /\ \A a, b \in 1..Len(wp.sections) : a < b => wp.sections[a] < wp.sections[b]
    /\ {wp.sections[a] : a \in 1..Len(wp.sections)} = {F(i) : i \in {x \in 1..wp.n : wp.ret[x] # 0}}

\* a document of two sections of which the later page completed first, a failed
\* page between them
C25_Witness ==
  /\ wp.phase = "document"
  /\ Len(wp.sections) = 2
  /\ \E i \in 1..wp.n : wp.ret[i] = 0
  /\ \E a, b \in 1..Len(wp.order) :
       /\ a < b /\ wp.order[a] > wp.order[b]
       /\ wp.ret[wp.order[a]] # 0 /\ wp.ret[wp.order[b]] # 0

C26_CandidatesAtMostMax ==
  uc.phase = "scan" => uc.size <= uc.max

\* ------------------------------------------------------------------ DNS memo
\* C27: the DNS memo is append-only: once it holds a classification for a host
\* name, no later or concurrent admission check overwrites or changes the entry.
C27_MemoEntryNeverChanges ==
  [][dnsCache # "miss" => dnsCache' = dnsCache]_vars

\* --------------------------------------------------------------- text job
\* a text job that was not cancelled has ended after all its pages were attempted
TextJobEnded ==
  /\ job # NoJob
  /\ body.kind = "pdf"
  /\ ~job.cancelRequested
  /\ job.status \in Terminal
  /\ pl.urls > 0 /\ pl.completed = pl.urls

\* C29 (as stated): in a text job that is not cancelled every page of the list is
\* attempted, a failed page yielding a null section; the job ends in error, for
\* lack of content, exactly when zero sections survive, and otherwise ends done
\* with one section per successfully extracted page.
C29_ErrorExactlyWhenNoSection ==
  TextJobEnded =>
    /\ (job.status = "error") <=> (pl.sections = 0)
    /\ job.status = "error" => job.message = "Non sono riuscito a estrarre testo"
    /\ job.status = "done" => job.current = pl.sections

\* C29 (amended): the job ends in error when zero sections survive, with the
\* lack-of-content message only then; with at least one section it ends done,
\* with one section per extracted page, unless closing the pages or rendering the
\* document fails, which ends it in error with that failure's message.
C29_ErrorWhenNoSectionOrRenderFails ==
  TextJobEnded =>
    /\ pl.sections = 0 => job.status = "error"
    /\ job.message = "Non sono riuscito a estrarre testo" => pl.sections = 0
    /\ job.status = "done" => (pl.sections >= 1 /\ job.current = pl.sections)
    /\ job.status = "error" =>
         job.message \in {"Non sono riuscito a estrarre testo", "Errore del browser"}

\* a job of two pages of which one failed has ended done with one section
C29_Witness ==
  /\ TextJobEnded
  /\ job.status = "done"
  /\ pl.urls = 2 /\ pl.sections = 1

\* C30 (as stated): at every point of a crawl the number of accepted results plus
\* the number of frontier entries is at most 3 times the effective max pages.
C30_FrontierAtMostThreeTimesMax ==
  cs.phase # "idle" => 2 * (Len(cs.results) + Len(cs.queue)) <= 3 * cs.maxHalf

\* C30 (amended): accepted results plus frontier entries stay below 3 times the
\* effective max pages plus one, that is at most that product rounded up to a
\* whole number.
C30_FrontierAtMostThreeTimesMaxRoundedUp ==
  cs.phase # "idle" => 2 * (Len(cs.results) + Len(cs.queue)) < 3 * cs.maxHalf + 2

\* a page had more links than the frontier had room for: the loop broke with
\* results plus frontier at the cap
C30_Witness ==
  /\ cs.phase \in {"closing", "returned"}
  /\ cs.maxHalf = 2
  /\ Len(cs.results) + Len(cs.queue) = 3
  /\ Len(cs.navs) = 1
\* C31: no URL a crawl returns matches an exclude pattern; with a non-empty
\* include list every returned URL, the start URL included, matches an include
\* pattern; a URL matching both an exclude and an include pattern is neither
\* accepted nor navigated to.
C31_ExcludeBeforeInclude ==
  /\ \A i \in 1..Len(cs.results) :
       /\ cs.results[i] \notin cs.excl
       /\ cs.incl.on => cs.results[i] \in cs.incl.m
  /\ \A u \in cs.excl \cap cs.incl.m :
       /\ \A i \in 1..Len(cs.results) : cs.results[i] # u
       /\ \A i \in 1..Len(cs.navs) : cs.navs[i] # u

\* a crawl with both lists returned results although a page linked to a URL
\* matching both, and to a URL outside the include list
C31_Witness ==
  /\ cs.phase = "returned"
  /\ cs.incl.on /\ cs.excl \cap cs.incl.m # {}
  /\ Len(cs.results) >= 2
  /\ cs.excl \cap cs.incl.m \subseteq cs.dropped
  /\ cs.dropped \ cs.incl.m # {}
C33_ReturnsWithEmptyQueueOrMaxResults ==
  /\ (cs.phase = "newPage") ~> (cs.phase = "returned")
  /\ [](cs.phase = "returned" =>
          Len(cs.queue) = 0 \/ 2 * Len(cs.results) = cs.maxHalf)

\* C33 (amended): every crawl returns, and when it does the frontier queue is
\* empty or the number of results is the effective max pages rounded up to a
\* whole number.
C33_ReturnsWithEmptyQueueOrMaxResultsRoundedUp ==
  /\ (cs.phase = "newPage") ~> (cs.phase = "returned")
  /\ [](cs.phase = "returned" =>
          \/ Len(cs.queue) = 0
          \/ cs.maxHalf <= 2 * Len(cs.results) /\ 2 * Len(cs.results) < cs.maxHalf + 2)

\* a crawl in which two pages link to the same URL returned at its page limit
C33_Witness ==
  /\ cs.phase = "returned"
  /\ Len(cs.navs) >= 2
  /\ Len(cs.queue) > 0
  /\ \E u \in SiteUrls : cs.enq[u] = 2

\* C40: the effective max depth is the requested value clamped to 0..6, the
\* default 2 only when the request carries none; a crawl requested with max
\* depth 0 returns at most the start URL and navigates to no page.
C40_DepthClampedZeroMeansStartOnly ==
  cs.phase # "idle" =>
    /\ cs.maxDepth = (IF cs.req = <<>> THEN 2 ELSE Max(0, Min(cs.req[1], 6)))
    /\ cs.req = <<0>> =>
         /\ \A i \in 1..Len(cs.results) : cs.results[i] = 1
         /\ cs.navs = <<>>
\* C34: in an image job with a minimum size of m > 0 bytes no payload of fewer
\* than m bytes is stored in the registry, on disk or in the archive, whatever
\* source it came from.
C34_NoPayloadBelowMinimum ==
  rg.minBytes > 0 =>
    /\ \A k \in DOMAIN rg.bestByKey :
         rg.bestByKey[k] # <<>> => rg.bestByKey[k][1].bytes >= rg.minBytes
    /\ \A f \in rg.files : f.bytes >= rg.minBytes
    /\ \A i \in 1..Len(rg.archive) : rg.archive[i].file.bytes >= rg.minBytes

\* C39: two inline data-URI images of different bytes found in one image job
\* are stored under different keys, so both are in the registry, and in the
\* archive once it is built.
C39_DataImagesKeptApart ==
  \A i, j \in 1..Len(rg.blog) :
    (/\ i # j
     /\ rg.blog[i].key \in DataKeys /\ rg.blog[j].key \in DataKeys
     /\ rg.blog[i].bytes # rg.blog[j].bytes) =>
      /\ rg.blog[i].key # rg.blog[j].key
      /\ rg.bestByKey[rg.blog[i].key][1].bytes = rg.blog[i].bytes
      /\ rg.status = "done" =>
           \E n \in 1..Len(rg.archive) :
             rg.archive[n].key = rg.blog[i].key /\ rg.archive[n].file.bytes = rg.blog[i].bytes
\* C35 (as stated): when the full-fidelity pass is taken and succeeds, the
\* section kept is the one of the pass with the longer plain text, whatever the
\* two lengths and whether or not the lightweight pass looked like an interstitial.
C35_KeepsLongerPass ==
  (ex.phase = "returned" /\ ex.kept # "none" /\ ~FastIsEnough(ex.fastLen, ex.fastCf)) =>
    /\ ex.safeLen > ex.fastLen => ex.kept = "safe"
    /\ ex.safeLen < ex.fastLen => ex.kept = "fast"

\* C35 (amended): when the full-fidelity pass is taken and succeeds, its section
\* is kept if the lightweight pass looked like an interstitial; otherwise the
\* section of the pass with the longer plain text is kept, the lightweight one
\* when the lengths are equal.
C35_KeepsSafeAfterInterstitialElseLonger ==
  (ex.phase = "returned" /\ ex.kept # "none" /\ ~FastIsEnough(ex.fastLen, ex.fastCf)) =>
    /\ ex.fastCf => ex.kept = "safe"
    /\ (~ex.fastCf /\ ex.safeLen > ex.fastLen) => ex.kept = "safe"
    /\ (~ex.fastCf /\ ex.safeLen <= ex.fastLen) => ex.kept = "fast"

C35_Witness ==
  /\ ex.phase = "returned"
  /\ ex.fastCf /\ ex.fastLen = 300 /\ ex.safeLen = 150
  /\ ex.kept = "safe"
\* the pooled stage the pipeline is suspended in
StageOf == IF pc = "dlPool" THEN "dl" ELSE IF body.kind = "pdf" THEN "text" ELSE "scan"
StageMessages == {"Leggo pagina", "Scansiono pagina", "Scarico best"}

\* C36: in the three pooled stages every item adds one to the stage's counter,
\* whether its processing succeeds or fails: while the stage runs the counter is
\* the number of items handed out minus those still being processed, it never
\* exceeds the number of items, every snapshot of a stage has current <= total,
\* and when the stage has completed the counter is the number of items.
C36_EachItemCountedOnce ==
  /\ pc \in {"pool", "dlPool"} =>
       LET n == Items(StageOf, pl)
           inside == Cardinality({w \in Workers : wk[w] \notin {"off", "exited", "threw"}})
       IN /\ pl.completed = Min(pl.nextIndex, n) - inside
          /\ pl.completed <= n
  /\ \A i \in 1..Len(sent) :
       sent[i].message \in StageMessages => sent[i].current <= sent[i].total
  /\ pc = "closePages" => pl.completed = pl.urls
  /\ pc = "finalize" => pl.completed = pl.finalUrlList

\* a text stage of two pages completed although one page gave no section
C36_Witness ==
  /\ pc = "closePages" /\ body.kind = "pdf"
  /\ pl.urls = 2 /\ pl.completed = 2 /\ pl.sections = 1
\* the pipeline has left its finally block: the status is terminal, the
\* renderer session (if one was launched) is closed and the job holds no handle
TornDown ==
  /\ pc = "finished"
  /\ job.status \in {"done", "error"}
  /\ browser \in {"none", "closed"}
  /\ ~job.browserRef

\* C37: every started job eventually has status done or error and its pipeline
\* eventually finishes its teardown, with or without a cancel request, when
\* every renderer, network and archive operation eventually returns or fails.
C37_StartedJobIsTornDown ==
  /\ (pc # "idle") ~> TornDown
  /\ [](pc = "finished" => TornDown)

\* a cancelled job whose pipeline has finished its teardown
C37_Witness ==
  TornDown /\ job.cancelRequested /\ browser = "closed"
\* C38: the sweep removes only jobs that no longer run: a running job stays in
\* the registry with its temporary directory and its archive file, and no file
\* of a job exists without the registry entry a later sweep or fetch needs to
\* delete it.
C38_SweepSparesRunningJobs ==
  /\ job.status = "running" =>
       /\ JobId \in jobs
       /\ job.tmpDir => disk.tmpDir
       /\ job.zipPath => disk.zip
  /\ (disk.tmpDir \/ disk.zip) => JobId \in jobs
====
